---- MODULE Spec2Model ----
(***************************************************************************)
(* WinSight-MCP: window discovery (find_window), the adaptive waiter,      *)
(* the PrintWindow capture pipeline, the window-manipulation operations    *)
(* and the tool results of the server, as state machines.                  *)
(*                                                                         *)
(* Text is a sequence of one-character strings.  An optional value         *)
(* (Python's `X | None`) is a sequence of length 0 (None) or 1.            *)
(* Time is counted in ticks of 0.1 s.                                      *)
(***************************************************************************)
EXTENDS Integers, Sequences, FiniteSets, TLC

VARIABLES
    windows,    \* the OS table of top-level windows, in enumeration order
    query,      \* find_window: the argument `title`
    fpc,        \* find_window: "enum" while inside EnumWindows, then "done"
    idx,        \* find_window: position of the next hwnd the enumerator hands out
    ctx,        \* find_window: the list `container`
    calls,      \* find_window: the win32gui queries made so far, <<api, hwnd>>
    found,      \* find_window: the value returned (None or a WindowInfo)
    raised,     \* find_window: TRUE iff an exception left find_window
    swallowed,  \* find_window: TRUE iff the except clause caught an exception
    crect,      \* capture_window_hwnd: what GetWindowRect returns, <<left, top, right, bottom>>
    cpc,        \* capture_window_hwnd: position in CaptureSteps of the next statement
    held,       \* capture_window_hwnd: OS graphics resources acquired and not released
    acquired,   \* capture_window_hwnd: OS graphics resources acquired at any point
    cexit,      \* capture_window_hwnd: "running", "returned", or the error raised
    clock,      \* time.time(), in ticks of 0.1 s
    waiter,     \* which waiter runs: "wm" wait_for_window, "pm" _wait_for_window
    wtitle,     \* waiter: the title waited for
    wtimeout,   \* waiter: the argument `timeout`, in ticks
    wstart,     \* waiter: the local `start`
    wpc,        \* waiter: "check", "poll", "elapsed", "sleep" or "done"
    welapsed,   \* waiter: the local `elapsed`
    wchecked,   \* waiter: the value of `time.time() - start` the loop condition saw last
    wresult,    \* waiter: the value returned
    nfound,     \* waiter: number of find_window calls that returned a window
    nfailed,    \* waiter: number of find_window calls that returned None
    sleeps,     \* waiter: number of time.sleep calls made
    lastsleep,  \* waiter: <<elapsed, interval>> of the latest time.sleep call
    drift,      \* ticks the clock advanced outside time.sleep
    presence,   \* whether a matching window was "always", "never" or "sometimes" there
    foreground, \* hwnd of the OS foreground window, 0 when there is none
    op,         \* window operation: [name, title, width, height, x, y]
    opc,        \* window operation: "find", "act", "done" or "raised"
    ow,         \* window operation: the local `w` (None or a WindowInfo)
    prog,       \* window operation: the OS calls still to make, in order
    oslog,      \* window operation: the OS calls made so far, in order
    attached,   \* TRUE iff thread input is attached (AttachThreadInput)
    sameThread, \* TRUE iff the current thread is the foreground window's thread
    ofault,     \* window operation: text of the OS error raised, <<>> if none
    ores,       \* window operation: the string returned
    monitors,   \* mss: the raw monitor list, entry 1 the combined virtual desktop
    tool,       \* server: the tool invoked, [name, text, nums]
    tpc,        \* server: "call", "wait" or "done"
    lres,       \* what the library function returned to the tool (open_application, list_monitors)
    tres,       \* server: what the tool invocation gives the caller
    tcalls,     \* server: the library calls the tool made (mss, ImageGrab, Popen, capture)
    lfilter,    \* list_windows: the argument `filter_text` (None or a text)
    lpc,        \* list_windows: "call", "done" or "raised"
    lwin,       \* list_windows: the list list_windows(filter_text) returned
    lall,       \* list_windows: the list list_windows(None) returned on the same table
    feed,       \* two waiters side by side: the clock readings, find_window results and timeout fed to both
    pair,       \* two waiters side by side: the locals, trace and result of each
    script,     \* run_python_script: its arguments
    spc,        \* run_python_script: "spawn", "wait", "sleep", "requery", "communicate" or "done"
    sfirst,     \* run_python_script: the window _wait_for_window returned
    sagain,     \* run_python_script: what find_window returned after the sleep
    sres        \* run_python_script: the result dictionary

findVars == <<query, fpc, idx, ctx, calls, found, raised, swallowed>>

captureVars == <<crect, cpc, held, acquired, cexit>>

waitVars == <<clock, waiter, wtitle, wtimeout, wstart, wpc, welapsed, wchecked,
              wresult,
              nfound, nfailed, sleeps, lastsleep, drift, presence>>

opVars == <<foreground, op, opc, ow, prog, oslog, attached, sameThread, ofault, ores>>

toolVars == <<monitors, tool, tpc, lres, tres, tcalls>>

listVars == <<lfilter, lpc, lwin, lall>>

pairVars == <<feed, pair>>

scriptVars == <<script, spc, sfirst, sagain, sres>>

vars == <<windows, findVars, captureVars, waitVars, opVars, toolVars, listVars, pairVars,
          scriptVars>>

notFind == <<captureVars, waitVars, opVars, toolVars, listVars, pairVars, scriptVars>>

notCapture == <<windows, findVars, waitVars, opVars, toolVars, listVars, pairVars,
                scriptVars>>

notWait == <<findVars, captureVars, opVars, toolVars, listVars, pairVars, scriptVars>>

\* the window operations also change the window table and advance the clock
notOp == <<findVars, captureVars, waiter, wtitle, wtimeout, wstart, wpc, welapsed, wchecked,
           wresult,
           nfound, nfailed, sleeps, lastsleep, drift, presence, toolVars, listVars, pairVars,
           scriptVars>>

\* an atomic tool changes nothing but its own result
notTool == <<windows, findVars, captureVars, waitVars, opVars, listVars, pairVars,
             scriptVars>>

notList == <<windows, findVars, captureVars, waitVars, opVars, toolVars, pairVars,
             scriptVars>>

notPair == <<windows, findVars, captureVars, waitVars, opVars, toolVars, listVars, scriptVars>>

\* run_python_script runs the waiter: the table and the clock change with it
notScript == <<findVars, captureVars, waitVars, opVars, toolVars, listVars, pairVars>>

-----------------------------------------------------------------------------
(* Bounds *)

MaxWindows == 2

MaxTitleLen == 2

MaxQueryLen == 2

MaxCoord == 2

\* largest timeout, in ticks
MaxTimeout == 56

\* ticks the clock may advance outside time.sleep during one wait
MaxDrift == 1

\* clock readings and find_window results fed to the two waiters
MaxReadings == 4

MaxFinds == 2

\* time.sleep calls followed within one wait: more than a wait of
\* MaxTimeout ticks makes (25 in the fast phase, then one per 5 ticks)
MaxSleeps == 30

\* physical monitors, the combined entry not counted
MaxMonitors == 2

-----------------------------------------------------------------------------
(* Text *)

Alphabet == {"a", "A", " "}

None == <<>>

Some(x) == <<x>>

RECURSIVE TextsUpTo(_)
TextsUpTo(n) ==
    IF n = 0 THEN {<<>>}
    ELSE LET shorter == TextsUpTo(n - 1)
         IN  shorter \cup {Append(s, c) : s \in {t \in shorter : Len(t) = n - 1}, c \in Alphabet}

\* the window titles
Texts == TextsUpTo(MaxTitleLen)

\* the title arguments of find_window
Queries == TextsUpTo(MaxQueryLen)

\* str.lower() on one character
LowerChar(c) == IF c = "A" THEN "a" ELSE c

\* str.lower()
Lower(s) == [i \in 1..Len(s) |-> LowerChar(s[i])]

IsSpace(c) == c = " "

\* str.strip(): drop leading and trailing whitespace
RECURSIVE LStrip(_)
LStrip(s) == IF Len(s) > 0 /\ IsSpace(s[1]) THEN LStrip(Tail(s)) ELSE s

RECURSIVE RStrip(_)
RStrip(s) ==
    IF Len(s) > 0 /\ IsSpace(s[Len(s)]) THEN RStrip(SubSeq(s, 1, Len(s) - 1)) ELSE s

Strip(s) == RStrip(LStrip(s))

\* truth value of a str
Truthy(s) == Len(s) > 0

\* the `in` operator on two str
Contains(sub, s) ==
    \E k \in 0..(Len(s) - Len(sub)) : SubSeq(s, k + 1, k + Len(sub)) = sub

\* t has a character that is not whitespace
NonBlank(t) == \E k \in DOMAIN t : ~IsSpace(t[k])

\* c and d are the same character up to letter case
SameLetter(c, d) == c = d \/ {c, d} = {"a", "A"}

\* q is a substring of t written in some permutation of upper and lower case
CasePermutedSubstring(q, t) ==
    \E k \in 0..(Len(t) - Len(q)) : \A j \in 1..Len(q) : SameLetter(q[j], t[k + j])

Qualifies(w, q) == w.visible /\ NonBlank(w.title) /\ CasePermutedSubstring(q, w.title)

-----------------------------------------------------------------------------
(* win32con *)

SW_SHOWMINIMIZED == 2

SW_SHOWMAXIMIZED == 3

ShowCmds == {1, SW_SHOWMINIMIZED, SW_SHOWMAXIMIZED}

-----------------------------------------------------------------------------
(* The OS window table.  A window is                                        *)
(* [hwnd, visible, title, left, top, right, bottom, show_cmd].              *)

Window(h, v, t, sc) ==
    [hwnd |-> h, visible |-> v, title |-> t,
     left |-> 10 * h, top |-> 20 * h, right |-> 10 * h + 80, bottom |-> 20 * h + 60,
     show_cmd |-> sc]

\* a table of n windows with handles 1..n, visibility and title given by f
Table(n, f) == [i \in 1..n |-> Window(i, f[i][1], f[i][2], 1)]

-----------------------------------------------------------------------------
(* window_manager._is_candidate, _build_window_info *)

is_candidate_case_sensitive(w, filter_lower) ==
    IF ~w.visible THEN None
    ELSE IF (Truthy(w.title) /\ Truthy(Strip(w.title)))
            /\ (filter_lower = None \/ Contains(filter_lower[1], w.title))
         THEN Some(w.title)
         ELSE None

is_candidate_no_strip(w, filter_lower) ==
    IF ~w.visible THEN None
    ELSE IF Truthy(w.title)
            /\ (filter_lower = None \/ Contains(filter_lower[1], Lower(w.title)))
         THEN Some(w.title)
         ELSE None

is_candidate_lowered(w, filter_lower) ==
    IF ~w.visible THEN None
    ELSE IF (Truthy(w.title) /\ Truthy(Strip(w.title)))
            /\ (filter_lower = None \/ Contains(filter_lower[1], Lower(w.title)))
         THEN Some(IF filter_lower = None THEN w.title ELSE Lower(w.title))
         ELSE None

\* the title of window w if it is visible, non-blank and contains the filter;
\* filter_lower is None or Some(text)
is_candidate(w, filter_lower) ==
    IF ~w.visible THEN None
    ELSE IF (Truthy(w.title) /\ Truthy(Strip(w.title)))
            /\ (filter_lower = None \/ Contains(filter_lower[1], Lower(w.title)))
         THEN Some(w.title)
         ELSE None

build_window_info(w, title) ==
    [title |-> title, hwnd |-> w.hwnd, left |-> w.left, top |-> w.top,
     width |-> w.right - w.left, height |-> w.bottom - w.top,
     minimized |-> (w.show_cmd = SW_SHOWMINIMIZED),
     maximized |-> (w.show_cmd = SW_SHOWMAXIMIZED)]

-----------------------------------------------------------------------------
(* window_manager.find_window *)

\* the win32gui queries one callback invocation can make; each may raise
Faults == {"none", "IsWindowVisible", "GetWindowText", "GetWindowRect", "GetWindowPlacement"}

\* what EnumWindows does when the callback returns False
Reactions == {"stop", "raise", "continue"}

CallbackResult(c, ret, made) == [ctx |-> c, ret |-> ret, calls |-> made]

callback_body_no_lower(w, q, c, fault) ==
    LET h == w.hwnd
        vis == <<"IsWindowVisible", h>>
        txt == <<"GetWindowText", h>>
        rct == <<"GetWindowRect", h>>
        plc == <<"GetWindowPlacement", h>>
        wnd_title == is_candidate(w, Some(q))
    IN  IF fault = "IsWindowVisible" THEN CallbackResult(c, "raise", <<vis>>)
        ELSE IF ~w.visible THEN CallbackResult(c, "True", <<vis>>)
        ELSE IF fault = "GetWindowText" THEN CallbackResult(c, "raise", <<vis, txt>>)
        ELSE IF wnd_title = None THEN CallbackResult(c, "True", <<vis, txt>>)
        ELSE IF fault = "GetWindowRect" THEN CallbackResult(c, "raise", <<vis, txt, rct>>)
        ELSE IF fault = "GetWindowPlacement"
             THEN CallbackResult(c, "raise", <<vis, txt, rct, plc>>)
        ELSE CallbackResult(Append(c, build_window_info(w, wnd_title[1])), "False",
                            <<vis, txt, rct, plc>>)

callback_body(w, q, c, fault) ==
    LET h == w.hwnd
        vis == <<"IsWindowVisible", h>>
        txt == <<"GetWindowText", h>>
        rct == <<"GetWindowRect", h>>
        plc == <<"GetWindowPlacement", h>>
        wnd_title == is_candidate(w, Some(Lower(q)))
    IN  IF fault = "IsWindowVisible" THEN CallbackResult(c, "raise", <<vis>>)
        ELSE IF ~w.visible THEN CallbackResult(c, "True", <<vis>>)
        ELSE IF fault = "GetWindowText" THEN CallbackResult(c, "raise", <<vis, txt>>)
        ELSE IF wnd_title = None THEN CallbackResult(c, "True", <<vis, txt>>)
        ELSE IF fault = "GetWindowRect" THEN CallbackResult(c, "raise", <<vis, txt, rct>>)
        ELSE IF fault = "GetWindowPlacement"
             THEN CallbackResult(c, "raise", <<vis, txt, rct, plc>>)
        ELSE CallbackResult(Append(c, build_window_info(w, wnd_title[1])), "False",
                            <<vis, txt, rct, plc>>)

enum_callback_no_guard(w, q, c, fault) == callback_body(w, q, c, fault)

\* the callback handed to EnumWindows: new ctx, return value, queries made
enum_callback(w, q, c, fault) ==
    IF c # <<>> THEN CallbackResult(c, "False", <<>>)
    ELSE callback_body(w, q, c, fault)

\* `return container[0] if container else None`
find_window_return(c) == IF c # <<>> THEN Some(c[1]) ELSE None

find_window_except_reraise(c) == [raised |-> TRUE, found |-> None]

find_window_except_none(c) == [raised |-> FALSE, found |-> None]

\* `except Exception: pass`, then the return statement
find_window_except(c) == [raised |-> FALSE, found |-> find_window_return(c)]

\* find_window is not running
FindIdle ==
    /\ query = <<>>
    /\ fpc = "idle"
    /\ idx = 1
    /\ ctx = <<>>
    /\ calls = <<>>
    /\ found = None
    /\ raised = FALSE
    /\ swallowed = FALSE

\* capture_window_hwnd is not running
CaptureIdle ==
    /\ crect = <<0, 0, 0, 0>>
    /\ cpc = 0
    /\ held = {}
    /\ acquired = {}
    /\ cexit = "idle"

\* no waiter is running
WaitIdle ==
    /\ clock = 0
    /\ waiter = "none"
    /\ wtitle = <<>>
    /\ wtimeout = 0
    /\ wstart = 0
    /\ wpc = "idle"
    /\ welapsed = 0
    /\ wchecked = 0
    /\ wresult = None
    /\ nfound = 0
    /\ nfailed = 0
    /\ sleeps = 0
    /\ lastsleep = <<0, 0>>
    /\ drift = 0
    /\ presence = "never"

\* no tool of the server is running
ToolIdle ==
    /\ monitors = <<>>
    /\ tool = [name |-> "none", text |-> <<>>, nums |-> <<>>]
    /\ tpc = "idle"
    /\ lres = <<>>
    /\ tres = <<>>
    /\ tcalls = <<>>

\* list_windows is not running
ListIdle ==
    /\ lfilter = None
    /\ lpc = "idle"
    /\ lwin = <<>>
    /\ lall = <<>>

\* one waiter of the pair, not started
NoWaiter ==
    [pc |-> "idle", start |-> 0, elapsed |-> 0, ri |-> 1, fi |-> 1, trace |-> <<>>,
     result |-> <<>>]

\* no pair of waiters is running
PairIdle ==
    /\ feed = [readings |-> <<>>, finds |-> <<>>, timeout |-> 0, title |-> <<>>]
    /\ pair = [x \in {"wm", "pm"} |-> NoWaiter]

\* run_python_script is not running
ScriptIdle ==
    /\ script = [path |-> <<>>, wait |-> None, capture_after |-> 0, timeout |-> 0]
    /\ spc = "idle"
    /\ sfirst = None
    /\ sagain = None
    /\ sres = <<>>

\* no window operation is running
OpRest ==
    /\ op = [name |-> "none", title |-> <<>>, width |-> 0, height |-> 0, x |-> 0, y |-> 0]
    /\ opc = "idle"
    /\ ow = None
    /\ prog = <<>>
    /\ oslog = <<>>
    /\ attached = FALSE
    /\ ofault = <<>>
    /\ ores = <<>>

OpIdle ==
    /\ foreground = 0
    /\ sameThread = TRUE
    /\ OpRest

FindInit ==
    /\ \E n \in 0..MaxWindows : \E f \in [1..n -> BOOLEAN \X Texts] : windows = Table(n, f)
    /\ query \in Queries
    /\ fpc = "enum"
    /\ idx = 1
    /\ ctx = <<>>
    /\ calls = <<>>
    /\ found = None
    /\ raised = FALSE
    /\ swallowed = FALSE
    /\ CaptureIdle
    /\ WaitIdle
    /\ OpIdle
    /\ ToolIdle
    /\ ListIdle
    /\ PairIdle
    /\ ScriptIdle

\* an exception reaches the try block of find_window
Caught(c) ==
    /\ fpc' = "done"
    /\ swallowed' = TRUE
    /\ found' = find_window_except(c).found
    /\ raised' = find_window_except(c).raised

\* EnumWindows returns normally
Returned(c) ==
    /\ fpc' = "done"
    /\ found' = find_window_return(c)
    /\ UNCHANGED <<raised, swallowed>>

\* EnumWindows itself fails, before handing out the next hwnd
EnumWindowsRaises ==
    /\ fpc = "enum"
    /\ Caught(ctx)
    /\ UNCHANGED <<windows, query, idx, ctx, calls>>
    /\ UNCHANGED notFind

\* the queries the callback is about to make on w: any one of them may raise
FaultsAt(w, q, c) ==
    LET made == enum_callback(w, q, c, "none").calls
    IN  {"none"} \cup {made[k][1] : k \in DOMAIN made}

\* EnumWindows invokes the callback on the next hwnd
EnumCallback ==
    /\ fpc = "enum"
    /\ idx <= Len(windows)
    /\ \E fault \in FaultsAt(windows[idx], query, ctx) :
         LET r == enum_callback(windows[idx], query, ctx, fault)
         IN  /\ ctx' = r.ctx
             /\ calls' = calls \o r.calls
             /\ CASE r.ret = "raise" -> Caught(r.ctx) /\ UNCHANGED idx
                  [] r.ret = "True" ->
                        /\ idx' = idx + 1
                        /\ UNCHANGED <<fpc, found, raised, swallowed>>
                  [] r.ret = "False" ->
                        \E reaction \in Reactions :
                            CASE reaction = "stop" -> Returned(r.ctx) /\ UNCHANGED idx
                              [] reaction = "raise" -> Caught(r.ctx) /\ UNCHANGED idx
                              [] reaction = "continue" ->
                                    /\ idx' = idx + 1
                                    /\ UNCHANGED <<fpc, found, raised, swallowed>>
    /\ UNCHANGED <<windows, query>>
    /\ UNCHANGED notFind

\* EnumWindows has handed out every hwnd and returns
EnumWindowsReturns ==
    /\ fpc = "enum"
    /\ idx > Len(windows)
    /\ Returned(ctx)
    /\ UNCHANGED <<windows, query, idx, ctx, calls>>
    /\ UNCHANGED notFind

FindNext == EnumWindowsRaises \/ EnumCallback \/ EnumWindowsReturns

FindSpec == FindInit /\ [][FindNext]_vars

-----------------------------------------------------------------------------
(* find_window as one call: the enumeration run from its first hwnd to the   *)
(* return statement                                                          *)

EnumFaults == Faults \cup {"EnumWindows"}

\* win32gui.EnumWindows(enum_callback, c) from position i on; `fault` strikes
\* at position k (k = 0: nothing fails).  Gives the final ctx and whether an
\* exception left EnumWindows.
RECURSIVE EnumWindows(_, _, _, _, _, _)
EnumWindows(tbl, q, i, c, k, fault) ==
    IF i = k /\ fault = "EnumWindows" THEN [ctx |-> c, exc |-> TRUE]
    ELSE IF i > Len(tbl) THEN [ctx |-> c, exc |-> FALSE]
    ELSE LET r == enum_callback(tbl[i], q, c, IF i = k THEN fault ELSE "none")
         IN  CASE r.ret = "raise" -> [ctx |-> r.ctx, exc |-> TRUE]
               [] r.ret = "False" -> [ctx |-> r.ctx, exc |-> FALSE]
               [] r.ret = "True" -> EnumWindows(tbl, q, i + 1, r.ctx, k, fault)

find_window(tbl, q, k, fault) ==
    LET e == EnumWindows(tbl, q, 1, <<>>, k, fault)
    IN  IF e.exc THEN find_window_except(e.ctx)
        ELSE [raised |-> FALSE, found |-> find_window_return(e.ctx)]

\* every outcome a call of find_window can have on table tbl
FindOutcomes(tbl, q) ==
    {find_window(tbl, q, k, f) : k \in 0..(Len(tbl) + 1), f \in EnumFaults}

-----------------------------------------------------------------------------
(* The adaptive waiter: window_manager.wait_for_window and                   *)
(* process_manager._wait_for_window (the same loop, different results)       *)

\* `elapsed < 5`, in ticks
FastPhase == 50

\* time.sleep(0.2), in ticks
FastSleep == 2

\* time.sleep(0.5), in ticks
SlowSleep == 5

sleep_interval_le(elapsed) == IF elapsed <= FastPhase THEN FastSleep ELSE SlowSleep

sleep_interval_swapped(elapsed) == IF elapsed < FastPhase THEN SlowSleep ELSE FastSleep

sleep_interval_none(elapsed) == elapsed - elapsed

\* `0.2 if elapsed < 5 else 0.5`
sleep_interval(elapsed) == IF elapsed < FastPhase THEN FastSleep ELSE SlowSleep

\* Formatted text (an f-string) is a sequence of parts: literal text, a field
\* of a window record, or an argument of the call.
Lit(t) == [lit |-> t]

Fld(name, v) == [field |-> name, value |-> v]

Arg(name, v) == [arg |-> name, value |-> v]

\* the loop condition `time.time() - start < timeout`
keeps_waiting(now, start, timeout) == now - start < timeout

\* the value returned when find_window returned w
wait_found(wtr, w) ==
    IF wtr = "wm" THEN <<Lit("Window found: '"), Fld("title", w.title), Lit("'")>>
    ELSE Some(w)

\* the value returned when the loop ends
wait_timed_out(wtr, title, timeout) ==
    IF wtr = "wm"
    THEN <<Lit("Timed out waiting for window matching '"), Arg("window_title", title),
           Lit("' after "), Arg("timeout", timeout), Lit("s")>>
    ELSE None

Timeouts == -1..MaxTimeout

WaitTitles == {<<"a">>}

\* the window tables of a wait: a window titled "A" and a blank-titled one
WaitTables ==
    {<<>>, <<Window(1, TRUE, <<"A">>, 1)>>, <<Window(2, TRUE, <<" ">>, 1)>>,
     <<Window(2, TRUE, <<" ">>, 1), Window(1, TRUE, <<"A">>, 1)>>}

\* a window qualifying for title q is in the table
Present(tbl, q) == \E i \in DOMAIN tbl : Qualifies(tbl[i], q)

Presence(prev, tbl, q) ==
    CASE prev = "always" /\ Present(tbl, q) -> "always"
      [] prev = "never" /\ ~Present(tbl, q) -> "never"
      [] OTHER -> "sometimes"

\* the state right after `start = time.time()`
WaitInit ==
    /\ windows \in WaitTables
    /\ FindIdle
    /\ CaptureIdle
    /\ OpIdle
    /\ ToolIdle
    /\ ListIdle
    /\ PairIdle
    /\ ScriptIdle
    /\ clock = 0
    /\ waiter \in {"wm", "pm"}
    /\ wtitle \in WaitTitles
    /\ wtimeout \in Timeouts
    /\ wstart = clock
    /\ wpc = "check"
    /\ welapsed = 0
    /\ wchecked = 0
    /\ wresult = None
    /\ nfound = 0
    /\ nfailed = 0
    /\ sleeps = 0
    /\ lastsleep = <<0, 0>>
    /\ drift = 0
    /\ presence = IF Present(windows, wtitle) THEN "always" ELSE "never"

\* `while time.time() - start < timeout:` and, when it fails, the final return
WaitCheck ==
    /\ wpc = "check"
    /\ wchecked' = clock - wstart
    /\ IF keeps_waiting(clock, wstart, wtimeout)
       THEN wpc' = "poll" /\ UNCHANGED wresult
       ELSE wpc' = "done" /\ wresult' = wait_timed_out(waiter, wtitle, wtimeout)
    /\ UNCHANGED <<windows, clock, waiter, wtitle, wtimeout, wstart, welapsed,
                   nfound, nfailed, sleeps, lastsleep, drift, presence>>
    /\ UNCHANGED notWait

\* `w = find_window(title)` and `if w is not None: return ...`
WaitPoll ==
    /\ wpc = "poll"
    /\ \E o \in FindOutcomes(windows, wtitle) :
         IF o.raised
         THEN wpc' = "raised" /\ UNCHANGED <<wresult, nfound, nfailed>>
         ELSE IF o.found # None
         THEN /\ wpc' = "done"
              /\ wresult' = wait_found(waiter, o.found[1])
              /\ nfound' = nfound + 1
              /\ UNCHANGED nfailed
         ELSE /\ wpc' = "elapsed"
              /\ nfailed' = nfailed + 1
              /\ UNCHANGED <<wresult, nfound>>
    /\ UNCHANGED <<windows, clock, waiter, wtitle, wtimeout, wstart, welapsed, wchecked,
                   sleeps, lastsleep, drift, presence>>
    /\ UNCHANGED notWait

\* `elapsed = time.time() - start`
WaitElapsed ==
    /\ wpc = "elapsed"
    /\ welapsed' = clock - wstart
    /\ UNCHANGED wchecked
    /\ wpc' = "sleep"
    /\ UNCHANGED <<windows, clock, waiter, wtitle, wtimeout, wstart, wresult,
                   nfound, nfailed, sleeps, lastsleep, drift, presence>>
    /\ UNCHANGED notWait

\* `time.sleep(0.2 if elapsed < 5 else 0.5)`
WaitSleep ==
    /\ wpc = "sleep"
    /\ sleeps < MaxSleeps
    /\ clock' = clock + sleep_interval(welapsed)
    /\ sleeps' = sleeps + 1
    /\ lastsleep' = <<welapsed, sleep_interval(welapsed)>>
    /\ wpc' = "check"
    /\ UNCHANGED <<windows, waiter, wtitle, wtimeout, wstart, welapsed, wchecked, wresult,
                   nfound, nfailed, drift, presence>>
    /\ UNCHANGED notWait

\* the wall clock advances while the waiter is not sleeping
Tick ==
    /\ wpc \in {"check", "poll", "elapsed", "sleep"}
    /\ drift < MaxDrift
    /\ clock' = clock + 1
    /\ drift' = drift + 1
    /\ UNCHANGED <<windows, waiter, wtitle, wtimeout, wstart, wpc, welapsed, wchecked, wresult,
                   nfound, nfailed, sleeps, lastsleep, presence>>
    /\ UNCHANGED notWait

\* windows open and close while the waiter runs
WindowTableChanges ==
    /\ wpc \in {"check", "poll", "elapsed", "sleep"}
    /\ windows' \in WaitTables \ {windows}
    /\ presence' = Presence(presence, windows', wtitle)
    /\ UNCHANGED <<clock, waiter, wtitle, wtimeout, wstart, wpc, welapsed, wchecked, wresult,
                   nfound, nfailed, sleeps, lastsleep, drift>>
    /\ UNCHANGED notWait

WaitNext ==
    WaitCheck \/ WaitPoll \/ WaitElapsed \/ WaitSleep \/ Tick \/ WindowTableChanges

WaitSpec == WaitInit /\ [][WaitNext]_vars

\* the waiter is one sequential call: its next statement is always executed
\* and the calls checked for termination have no timeout, a timeout inside
\* the fast phase, or the largest one
TermTimeouts == {-1, 0, 3, MaxTimeout}

WaitFairInit == WaitInit /\ wtimeout \in TermTimeouts

WaitFairSpec ==
    /\ WaitFairInit
    /\ [][WaitNext]_vars
    /\ WF_vars(WaitCheck \/ WaitPoll \/ WaitElapsed \/ WaitSleep)

-----------------------------------------------------------------------------
(* window_manager.wait_for_window and process_manager._wait_for_window run   *)
(* side by side on the same clock readings and find_window results           *)

\* the i-th value time.time() returns: the readings fed, then FastPhase
\* ticks more with every further call
Reading(rs, i) ==
    IF i <= Len(rs) THEN rs[i]
    ELSE (IF rs = <<>> THEN 0 ELSE rs[Len(rs)]) + (i - Len(rs)) * FastPhase

\* the i-th value find_window returns: the results fed, then None
FindResult(fs, i) == IF i <= Len(fs) THEN fs[i] ELSE None

\* a call a waiter made: find_window(title) or time.sleep(arg)
Made(call, arg) == [call |-> call, arg |-> arg]

\* the next statement of window_manager.wait_for_window on the locals m
wm_wait_for_window(m, f) ==
    CASE m.pc = "start" ->
            [m EXCEPT !.start = Reading(f.readings, m.ri), !.ri = @ + 1, !.pc = "check"]
      [] m.pc = "check" ->
            IF Reading(f.readings, m.ri) - m.start < f.timeout
            THEN [m EXCEPT !.ri = @ + 1, !.pc = "poll"]
            ELSE [m EXCEPT !.ri = @ + 1, !.pc = "done", !.result = <<Lit("Timed out waiting for window matching '"),
                                    Arg("window_title", f.title), Lit("' after "),
                                    Arg("timeout", f.timeout), Lit("s")>>]
      [] m.pc = "poll" ->
            LET w == FindResult(f.finds, m.fi)
            IN  IF w # None
                THEN [m EXCEPT !.fi = @ + 1, !.trace = Append(@, Made("find_window", 0)),
                               !.pc = "done", !.result = <<Lit("Window found: '"),
                                                          Fld("title", w[1].title), Lit("'")>>]
                ELSE [m EXCEPT !.fi = @ + 1, !.trace = Append(@, Made("find_window", 0)),
                               !.pc = "elapsed"]
      [] m.pc = "elapsed" ->
            [m EXCEPT !.elapsed = Reading(f.readings, m.ri) - m.start, !.ri = @ + 1,
                      !.pc = "sleep"]
      [] m.pc = "sleep" ->
            [m EXCEPT !.trace = Append(@, Made("sleep", IF m.elapsed < FastPhase
                                                        THEN FastSleep ELSE SlowSleep)),
                      !.pc = "check"]

pm_wait_for_window_le(m, f) ==
    CASE m.pc = "start" ->
            [m EXCEPT !.start = Reading(f.readings, m.ri), !.ri = @ + 1, !.pc = "check"]
      [] m.pc = "check" ->
            IF Reading(f.readings, m.ri) - m.start < f.timeout
            THEN [m EXCEPT !.ri = @ + 1, !.pc = "poll"]
            ELSE [m EXCEPT !.ri = @ + 1, !.pc = "done", !.result = None]
      [] m.pc = "poll" ->
            LET w == FindResult(f.finds, m.fi)
            IN  IF w # None
                THEN [m EXCEPT !.fi = @ + 1, !.trace = Append(@, Made("find_window", 0)),
                               !.pc = "done", !.result = w]
                ELSE [m EXCEPT !.fi = @ + 1, !.trace = Append(@, Made("find_window", 0)),
                               !.pc = "elapsed"]
      [] m.pc = "elapsed" ->
            [m EXCEPT !.elapsed = Reading(f.readings, m.ri) - m.start, !.ri = @ + 1,
                      !.pc = "sleep"]
      [] m.pc = "sleep" ->
            [m EXCEPT !.trace = Append(@, Made("sleep", IF m.elapsed <= FastPhase
                                                        THEN FastSleep ELSE SlowSleep)),
                      !.pc = "check"]

\* the next statement of process_manager._wait_for_window on the locals m
pm_wait_for_window(m, f) ==
    CASE m.pc = "start" ->
            [m EXCEPT !.start = Reading(f.readings, m.ri), !.ri = @ + 1, !.pc = "check"]
      [] m.pc = "check" ->
            IF Reading(f.readings, m.ri) - m.start < f.timeout
            THEN [m EXCEPT !.ri = @ + 1, !.pc = "poll"]
            ELSE [m EXCEPT !.ri = @ + 1, !.pc = "done", !.result = None]
      [] m.pc = "poll" ->
            LET w == FindResult(f.finds, m.fi)
            IN  IF w # None
                THEN [m EXCEPT !.fi = @ + 1, !.trace = Append(@, Made("find_window", 0)),
                               !.pc = "done", !.result = w]
                ELSE [m EXCEPT !.fi = @ + 1, !.trace = Append(@, Made("find_window", 0)),
                               !.pc = "elapsed"]
      [] m.pc = "elapsed" ->
            [m EXCEPT !.elapsed = Reading(f.readings, m.ri) - m.start, !.ri = @ + 1,
                      !.pc = "sleep"]
      [] m.pc = "sleep" ->
            [m EXCEPT !.trace = Append(@, Made("sleep", IF m.elapsed < FastPhase
                                                        THEN FastSleep ELSE SlowSleep)),
                      !.pc = "check"]

\* the readings fed lie on both sides of the 5 s boundary
ReadingValues == {0, 2, FastPhase - 1, FastPhase}

\* the windows find_window is fed
FoundWindows ==
    {Some(build_window_info(Window(1, TRUE, <<"A">>, 1), <<"A">>)),
     Some(build_window_info(Window(2, TRUE, <<"a", " ">>, 1), <<"a", " ">>))}

PairTimeouts == {0, 3, FastPhase + 1, MaxTimeout}

PairInit ==
    /\ windows = <<>>
    /\ FindIdle
    /\ CaptureIdle
    /\ WaitIdle
    /\ OpIdle
    /\ ToolIdle
    /\ ListIdle
    /\ ScriptIdle
    /\ \E n \in 0..MaxReadings : \E rs \in [1..n -> ReadingValues] :
         \E k \in 0..MaxFinds : \E fs \in [1..k -> FoundWindows \cup {None}] :
            /\ \A i \in 1..(n - 1) : rs[i] <= rs[i + 1]
            /\ \E t \in PairTimeouts :
                 feed = [readings |-> rs, finds |-> fs, timeout |-> t, title |-> <<"a">>]
    /\ pair = [x \in {"wm", "pm"} |-> [NoWaiter EXCEPT !.pc = "start"]]

\* wait_for_window executes its next statement
WaitForWindowStep ==
    /\ pair["wm"].pc \notin {"idle", "done"}
    /\ pair' = [pair EXCEPT !["wm"] = wm_wait_for_window(@, feed)]
    /\ UNCHANGED feed
    /\ UNCHANGED notPair

\* _wait_for_window executes its next statement, on the same feed, once
\* wait_for_window has returned
PmWaitForWindowStep ==
    /\ pair["wm"].pc = "done"
    /\ pair["pm"].pc \notin {"idle", "done"}
    /\ pair' = [pair EXCEPT !["pm"] = pm_wait_for_window(@, feed)]
    /\ UNCHANGED feed
    /\ UNCHANGED notPair

PairNext == WaitForWindowStep \/ PmWaitForWindowStep

PairSpec == PairInit /\ [][PairNext]_vars

-----------------------------------------------------------------------------
(* window_manager: focus_window, resize_window, move_window,                 *)
(* minimize_window, maximize_window, restore_window, _force_foreground       *)

SW_SHOW == 5

SW_MINIMIZE == 6

SW_MAXIMIZE == 3

SW_RESTORE == 9

\* time.sleep(0.3), in ticks
FocusSleep == 3

OpNames == {"focus", "resize", "move", "minimize", "maximize", "restore"}

ErrorTexts == {<<"Access denied">>}

\* one OS call; `guarded` marks the calls inside the try block of _force_foreground
Call(api, h, arg, guarded) == [api |-> api, hwnd |-> h, arg |-> arg, guarded |-> guarded]

force_foreground_always_attaches(h, same) ==
    <<Call("GetForegroundWindow", 0, <<>>, FALSE),
      Call("GetCurrentThreadId", 0, <<>>, FALSE),
      Call("GetWindowThreadProcessId", 0, <<>>, FALSE),
      Call("AttachThreadInput", 0, <<"attach">>, FALSE),
      Call("BringWindowToTop", h, <<>>, TRUE),
      Call("ShowWindow", h, <<SW_SHOW>>, TRUE),
      Call("SetForegroundWindow", h, <<>>, TRUE),
      Call("AttachThreadInput", 0, <<"detach">>, FALSE)>>

\* the OS calls of _force_foreground(hwnd)
force_foreground(h, same) ==
    <<Call("GetForegroundWindow", 0, <<>>, FALSE),
      Call("GetCurrentThreadId", 0, <<>>, FALSE),
      Call("GetWindowThreadProcessId", 0, <<>>, FALSE)>>
    \o (IF same THEN <<>> ELSE <<Call("AttachThreadInput", 0, <<"attach">>, FALSE)>>)
    \o <<Call("BringWindowToTop", h, <<>>, TRUE),
         Call("ShowWindow", h, <<SW_SHOW>>, TRUE),
         Call("SetForegroundWindow", h, <<>>, TRUE)>>
    \o (IF same THEN <<>> ELSE <<Call("AttachThreadInput", 0, <<"detach">>, FALSE)>>)

op_program_no_sleep(o, w, same) ==
    CASE o.name = "focus" ->
            (IF w.minimized
             THEN <<Call("ShowWindow", w.hwnd, <<SW_RESTORE>>, FALSE)>>
             ELSE <<>>)
            \o force_foreground(w.hwnd, same)
      [] o.name = "resize" ->
            <<Call("SetWindowPos", w.hwnd,
                   <<0, 0, o.width, o.height, {"SWP_NOMOVE", "SWP_NOZORDER"}>>, FALSE)>>
      [] o.name = "move" ->
            <<Call("SetWindowPos", w.hwnd,
                   <<o.x, o.y, 0, 0, {"SWP_NOSIZE", "SWP_NOZORDER"}>>, FALSE)>>
      [] o.name = "minimize" -> <<Call("ShowWindow", w.hwnd, <<SW_MINIMIZE>>, FALSE)>>
      [] o.name = "maximize" -> <<Call("ShowWindow", w.hwnd, <<SW_MAXIMIZE>>, FALSE)>>
      [] o.name = "restore" -> <<Call("ShowWindow", w.hwnd, <<SW_RESTORE>>, FALSE)>>

op_program_resize_no_flags(o, w, same) ==
    CASE o.name = "focus" ->
            (IF w.minimized
             THEN <<Call("ShowWindow", w.hwnd, <<SW_RESTORE>>, FALSE),
                    Call("sleep", 0, <<FocusSleep>>, FALSE)>>
             ELSE <<>>)
            \o force_foreground(w.hwnd, same)
      [] o.name = "resize" ->
            <<Call("SetWindowPos", w.hwnd, <<0, 0, o.width, o.height, {}>>, FALSE)>>
      [] o.name = "move" ->
            <<Call("SetWindowPos", w.hwnd,
                   <<o.x, o.y, 0, 0, {"SWP_NOSIZE", "SWP_NOZORDER"}>>, FALSE)>>
      [] o.name = "minimize" -> <<Call("ShowWindow", w.hwnd, <<SW_MINIMIZE>>, FALSE)>>
      [] o.name = "maximize" -> <<Call("ShowWindow", w.hwnd, <<SW_MAXIMIZE>>, FALSE)>>
      [] o.name = "restore" -> <<Call("ShowWindow", w.hwnd, <<SW_RESTORE>>, FALSE)>>

\* the OS calls the operation makes inside its try block, once w is found
op_program(o, w, same) ==
    CASE o.name = "focus" ->
            (IF w.minimized
             THEN <<Call("ShowWindow", w.hwnd, <<SW_RESTORE>>, FALSE),
                    Call("sleep", 0, <<FocusSleep>>, FALSE)>>
             ELSE <<>>)
            \o force_foreground(w.hwnd, same)
      [] o.name = "resize" ->
            <<Call("SetWindowPos", w.hwnd,
                   <<0, 0, o.width, o.height, {"SWP_NOMOVE", "SWP_NOZORDER"}>>, FALSE)>>
      [] o.name = "move" ->
            <<Call("SetWindowPos", w.hwnd,
                   <<o.x, o.y, 0, 0, {"SWP_NOSIZE", "SWP_NOZORDER"}>>, FALSE)>>
      [] o.name = "minimize" -> <<Call("ShowWindow", w.hwnd, <<SW_MINIMIZE>>, FALSE)>>
      [] o.name = "maximize" -> <<Call("ShowWindow", w.hwnd, <<SW_MAXIMIZE>>, FALSE)>>
      [] o.name = "restore" -> <<Call("ShowWindow", w.hwnd, <<SW_RESTORE>>, FALSE)>>

no_window_message(title) ==
    <<Lit("No window found matching '"), Arg("title", title), Lit("'")>>

\* "Window '<title>' <what happened>"
window_message(w, tail) == <<Lit("Window '"), Fld("title", w.title), Lit("' ")>> \o tail

success_message(o, w) ==
    CASE o.name = "focus" -> window_message(w, <<Lit("is now focused")>>)
      [] o.name = "resize" ->
            window_message(w, <<Lit("resized to "), Arg("width", o.width), Lit("x"),
                                Arg("height", o.height)>>)
      [] o.name = "move" ->
            window_message(w, <<Lit("moved to ("), Arg("x", o.x), Lit(", "),
                                Arg("y", o.y), Lit(")")>>)
      [] o.name = "minimize" -> window_message(w, <<Lit("minimized")>>)
      [] o.name = "maximize" -> window_message(w, <<Lit("maximized")>>)
      [] o.name = "restore" -> window_message(w, <<Lit("restored")>>)

failure_message(o, w, e) ==
    <<Lit("Failed to "), Lit(o.name), Lit(" window '"), Fld("title", w.title), Lit("': "),
      Arg("e", e)>>

op_except_reraise(o, w, e) == [raised |-> TRUE, result |-> <<>>]

\* `except Exception as e: return f"Failed to ..."`
op_except(o, w, e) == [raised |-> FALSE, result |-> failure_message(o, w, e)]

\* ShowWindow(hwnd, cmd) on one window
show_window(w, cmd) ==
    CASE cmd = SW_RESTORE -> [w EXCEPT !.show_cmd = 1]
      [] cmd = SW_MINIMIZE -> [w EXCEPT !.show_cmd = SW_SHOWMINIMIZED]
      [] cmd = SW_MAXIMIZE -> [w EXCEPT !.show_cmd = SW_SHOWMAXIMIZED]
      [] cmd = SW_SHOW -> [w EXCEPT !.visible = TRUE]

\* SetWindowPos(hwnd, HWND_TOP, x, y, cx, cy, flags) on one window
set_window_pos(w, a) ==
    LET x == a[1]
        y == a[2]
        cx == a[3]
        cy == a[4]
        flags == a[5]
        moved == IF "SWP_NOMOVE" \in flags THEN w
                 ELSE [w EXCEPT !.left = x, !.top = y,
                                !.right = x + (w.right - w.left),
                                !.bottom = y + (w.bottom - w.top)]
    IN  IF "SWP_NOSIZE" \in flags THEN moved
        ELSE [moved EXCEPT !.right = moved.left + cx, !.bottom = moved.top + cy]

\* the window table with window h moved to the top of the z-order
to_top(tbl, h) ==
    SelectSeq(tbl, LAMBDA w : w.hwnd = h) \o SelectSeq(tbl, LAMBDA w : w.hwnd # h)

\* the window table after OS call c
table_after(tbl, c) ==
    CASE c.api = "ShowWindow" ->
            [i \in DOMAIN tbl |->
                IF tbl[i].hwnd = c.hwnd THEN show_window(tbl[i], c.arg[1]) ELSE tbl[i]]
      [] c.api = "SetWindowPos" ->
            LET placed == [i \in DOMAIN tbl |->
                            IF tbl[i].hwnd = c.hwnd THEN set_window_pos(tbl[i], c.arg)
                            ELSE tbl[i]]
            IN  IF "SWP_NOZORDER" \in c.arg[5] THEN placed ELSE to_top(placed, c.hwnd)
      [] c.api = "BringWindowToTop" -> to_top(tbl, c.hwnd)
      [] OTHER -> tbl

\* the calls made through ctypes.windll: a foreign function returns its
\* status as an integer and does not raise when the OS call fails
CtypesCalls == {"GetCurrentThreadId", "GetWindowThreadProcessId", "AttachThreadInput"}

\* the OS calls that report failure by raising: the win32gui ones
CanRaise(c) == c.api \notin (CtypesCalls \cup {"sleep"})

OpTitles == {<<"a">>}

\* the arguments of an operation: width, height, x and y in 0..MaxCoord
Ops ==
    {[name |-> n, title |-> t, width |-> 0, height |-> 0, x |-> 0, y |-> 0] :
        n \in {"focus", "minimize", "maximize", "restore"}, t \in OpTitles}
    \cup {[name |-> "resize", title |-> t, width |-> a, height |-> b, x |-> 0, y |-> 0] :
        t \in OpTitles, a \in 0..MaxCoord, b \in 0..MaxCoord}
    \cup {[name |-> "move", title |-> t, width |-> 0, height |-> 0, x |-> a, y |-> b] :
        t \in OpTitles, a \in 0..MaxCoord, b \in 0..MaxCoord}

\* a table of n visible windows with handles 1..n, titles and show states by f
OpTable(n, f) == [i \in 1..n |-> Window(i, TRUE, f[i][1], f[i][2])]

OpInit ==
    /\ \E n \in 0..MaxWindows :
         \E f \in [1..n -> {<<"A">>, <<" ">>} \X ShowCmds] :
            /\ windows = OpTable(n, f)
            /\ foreground \in 0..n
    /\ FindIdle
    /\ CaptureIdle
    /\ WaitIdle
    /\ ToolIdle
    /\ ListIdle
    /\ PairIdle
    /\ ScriptIdle
    /\ op \in Ops
    /\ opc = "find"
    /\ ow = None
    /\ prog = <<>>
    /\ oslog = <<>>
    /\ attached = FALSE
    /\ sameThread \in BOOLEAN
    /\ ofault = <<>>
    /\ ores = <<>>

\* `w = find_window(title)` and `if w is None: return ...`
OpFind ==
    /\ opc = "find"
    /\ \E o \in FindOutcomes(windows, op.title) :
         IF o.raised
         THEN opc' = "raised" /\ UNCHANGED <<ow, prog, ores>>
         ELSE IF o.found = None
         THEN /\ opc' = "done"
              /\ ores' = no_window_message(op.title)
              /\ UNCHANGED <<ow, prog>>
         ELSE /\ opc' = "act"
              /\ ow' = o.found
              /\ prog' = op_program(op, o.found[1], sameThread)
              /\ UNCHANGED ores
    /\ UNCHANGED <<windows, clock, foreground, op, oslog, attached, sameThread, ofault>>
    /\ UNCHANGED notOp

\* the next OS call of the operation completes
OpCall ==
    /\ opc = "act"
    /\ prog # <<>>
    /\ LET c == Head(prog)
       IN  /\ windows' = table_after(windows, c)
           /\ foreground' = IF c.api = "SetForegroundWindow" THEN c.hwnd ELSE foreground
           /\ attached' = IF c.api = "AttachThreadInput" THEN c.arg = <<"attach">> ELSE attached
           /\ clock' = IF c.api = "sleep" THEN clock + c.arg[1] ELSE clock
           /\ oslog' = Append(oslog, c)
    /\ prog' = Tail(prog)
    /\ UNCHANGED <<op, opc, ow, sameThread, ofault, ores>>
    /\ UNCHANGED notOp

\* the next OS call raises: the finally block of _force_foreground detaches
\* if the call was inside its try block, then the except clause returns
OpCallRaises ==
    /\ opc = "act"
    /\ prog # <<>>
    /\ CanRaise(Head(prog))
    /\ \E e \in ErrorTexts :
         /\ ofault' = e
         /\ IF op_except(op, ow[1], e).raised
            THEN opc' = "raised" /\ UNCHANGED ores
            ELSE opc' = "done" /\ ores' = op_except(op, ow[1], e).result
    /\ IF Head(prog).guarded /\ ~sameThread
       THEN /\ oslog' = oslog \o <<Head(prog), Call("AttachThreadInput", 0, <<"detach">>, FALSE)>>
            /\ attached' = FALSE
       ELSE /\ oslog' = Append(oslog, Head(prog))
            /\ UNCHANGED attached
    /\ prog' = <<>>
    /\ UNCHANGED <<windows, clock, foreground, op, ow, sameThread>>
    /\ UNCHANGED notOp

\* every OS call completed: the success message is returned
OpReturn ==
    /\ opc = "act"
    /\ prog = <<>>
    /\ opc' = "done"
    /\ ores' = success_message(op, ow[1])
    /\ UNCHANGED <<windows, clock, foreground, op, ow, prog, oslog, attached, sameThread, ofault>>
    /\ UNCHANGED notOp

OpNext == OpFind \/ OpCall \/ OpCallRaises \/ OpReturn

OpSpec == OpInit /\ [][OpNext]_vars

-----------------------------------------------------------------------------
(* screenshot.capture_window_hwnd *)

\* the statements of capture_window_hwnd that call into win32 or PIL, in order
CaptureSteps ==
    <<"GetWindowRect", "CheckDimensions", "GetWindowDC", "CreateDCFromHandle",
      "CreateCompatibleDC", "CreateBitmap", "CreateCompatibleBitmap", "SelectObject",
      "PrintWindow", "GetInfo", "GetBitmapBits", "frombuffer",
      "DeleteObject", "save_dc.DeleteDC", "mfc_dc.DeleteDC", "ReleaseDC",
      "save", "getvalue">>

\* the resource a statement acquires
Acquires(step) ==
    CASE step = "GetWindowDC" -> {"hwnd_dc"}
      [] step = "CreateDCFromHandle" -> {"mfc_dc"}
      [] step = "CreateCompatibleDC" -> {"save_dc"}
      [] step = "CreateCompatibleBitmap" -> {"bitmap"}
      [] OTHER -> {}

\* the resource a statement releases
Releases(step) ==
    CASE step = "DeleteObject" -> {"bitmap"}
      [] step = "save_dc.DeleteDC" -> {"save_dc"}
      [] step = "mfc_dc.DeleteDC" -> {"mfc_dc"}
      [] step = "ReleaseDC" -> {"hwnd_dc"}
      [] OTHER -> {}

invalid_dimensions_strict(r) ==
    LET width == r[3] - r[1]
        height == r[4] - r[2]
    IN  width < 0 \/ height < 0

\* `width <= 0 or height <= 0` on the rectangle GetWindowRect returned
invalid_dimensions(r) ==
    LET width == r[3] - r[1]
        height == r[4] - r[2]
    IN  width <= 0 \/ height <= 0

CaptureInit ==
    /\ windows = <<>>
    /\ FindIdle
    /\ WaitIdle
    /\ OpIdle
    /\ ToolIdle
    /\ ListIdle
    /\ PairIdle
    /\ ScriptIdle
    /\ crect \in (0..MaxCoord) \X (0..MaxCoord) \X (0..MaxCoord) \X (0..MaxCoord)
    /\ cpc = 1
    /\ held = {}
    /\ acquired = {}
    /\ cexit = "running"

\* the dimension check raises ValueError
CaptureInvalidDimensions ==
    /\ cexit = "running"
    /\ CaptureSteps[cpc] = "CheckDimensions"
    /\ invalid_dimensions(crect)
    /\ cexit' = "ValueError: invalid dimensions"
    /\ UNCHANGED <<crect, cpc, held, acquired>>
    /\ UNCHANGED notCapture

\* the next statement completes
CaptureStep ==
    /\ cexit = "running"
    /\ CaptureSteps[cpc] = "CheckDimensions" => ~invalid_dimensions(crect)
    /\ held' = (held \cup Acquires(CaptureSteps[cpc])) \ Releases(CaptureSteps[cpc])
    /\ acquired' = acquired \cup Acquires(CaptureSteps[cpc])
    /\ IF cpc = Len(CaptureSteps)
       THEN cexit' = "returned" /\ UNCHANGED cpc
       ELSE cpc' = cpc + 1 /\ UNCHANGED cexit
    /\ UNCHANGED crect
    /\ UNCHANGED notCapture

\* the next statement raises: nothing in capture_window_hwnd catches it
CaptureStepRaises ==
    /\ cexit = "running"
    /\ CaptureSteps[cpc] # "CheckDimensions"
    /\ cexit' = "raised"
    /\ UNCHANGED <<crect, cpc, held, acquired>>
    /\ UNCHANGED notCapture

CaptureNext == CaptureInvalidDimensions \/ CaptureStep \/ CaptureStepRaises

CaptureSpec == CaptureInit /\ [][CaptureNext]_vars

\* C1: whenever capture_window_hwnd exits, normally or with an error, every
\* OS graphics resource it acquired (window DC, MFC DC, compatible DC,
\* bitmap) has been released.
C1_AllReleasedOnExit ==
    cexit \in {"returned", "raised", "ValueError: invalid dimensions"} => held = {}

-----------------------------------------------------------------------------
(* window_manager.list_windows and get_window_info, process_manager          *)
(* open_application, and the tools of server.py                              *)

list_windows_filter_no_lower(filter_text) ==
    IF filter_text # None /\ Truthy(filter_text[1]) THEN Some(filter_text[1]) ELSE None

\* `filter_text.lower() if filter_text else None`
list_windows_filter(filter_text) ==
    IF filter_text # None /\ Truthy(filter_text[1]) THEN Some(Lower(filter_text[1])) ELSE None

\* the entries list_windows collects from position i on; fg[i] is what
\* GetForegroundWindow() returns during the callback on the i-th window
RECURSIVE list_windows_from(_, _, _, _)
list_windows_from(tbl, filter_lower, fg, i) ==
    IF i > Len(tbl) THEN <<>>
    ELSE LET title == is_candidate(tbl[i], filter_lower)
             rest == list_windows_from(tbl, filter_lower, fg, i + 1)
         IN  IF title # None
             THEN <<build_window_info(tbl[i], title[1]) @@ [active |-> (tbl[i].hwnd = fg[i])]>>
                  \o rest
             ELSE rest

list_windows_empty_lists_nothing(tbl, filter_text, fg) ==
    IF filter_text = Some(<<>>) THEN <<>>
    ELSE list_windows_from(tbl, list_windows_filter(filter_text), fg, 1)

list_windows(tbl, filter_text, fg) ==
    list_windows_from(tbl, list_windows_filter(filter_text), fg, 1)

\* the filters of list_windows: absent, or a text (the empty one included)
Filters == {None} \cup {Some(q) : q \in Queries}

\* every title is tried on a visible window, one on an invisible window
ListInit ==
    /\ \E n \in 0..MaxWindows :
         \E f \in [1..n -> ({TRUE} \X Texts) \cup {<<FALSE, <<"a">>>>}] :
            windows = Table(n, f)
    /\ FindIdle
    /\ CaptureIdle
    /\ WaitIdle
    /\ OpIdle
    /\ ToolIdle
    /\ PairIdle
    /\ ScriptIdle
    /\ lfilter \in Filters
    /\ lpc = "call"
    /\ lwin = <<>>
    /\ lall = <<>>

\* list_windows(filter_text) and list_windows(None) return, the foreground
\* window being fg[i] while the i-th window is enumerated
ListWindowsReturns ==
    /\ lpc = "call"
    /\ \E fg \in [DOMAIN windows -> 0..Len(windows)] :
         /\ lwin' = list_windows(windows, lfilter, fg)
         /\ lall' = list_windows(windows, None, fg)
    /\ lpc' = "done"
    /\ UNCHANGED lfilter
    /\ UNCHANGED notList

\* EnumWindows raises: list_windows has no except clause
ListWindowsRaises ==
    /\ lpc = "call"
    /\ lpc' = "raised"
    /\ UNCHANGED <<lfilter, lwin, lall>>
    /\ UNCHANGED notList

ListNext == ListWindowsReturns \/ ListWindowsRaises

ListSpec == ListInit /\ [][ListNext]_vars

\* every run a call of find_window can make on table tbl: how EnumWindows
\* ended and what find_window returned
FindRuns(tbl, q) ==
    {[enum |-> EnumWindows(tbl, q, 1, <<>>, k, f), ret |-> find_window(tbl, q, k, f)] :
        k \in 0..(Len(tbl) + 1), f \in EnumFaults}

\* find_window(t) and list_windows(t) are called with a non-empty text
LocateInit ==
    /\ ListInit
    /\ lfilter # None
    /\ lfilter[1] # <<>>

\* find_window(t) and list_windows(t) return on the same window table with
\* the same foreground window; a failure may strike the enumeration of
\* find_window, whose except clause swallows it
FindAndList ==
    /\ lpc = "call"
    /\ \E run \in FindRuns(windows, lfilter[1]), fgw \in 0..Len(windows) :
         LET fg == [i \in DOMAIN windows |-> fgw]
         IN  /\ ctx' = run.enum.ctx
             /\ swallowed' = run.enum.exc
             /\ found' = run.ret.found
             /\ raised' = run.ret.raised
             /\ lwin' = list_windows(windows, lfilter, fg)
             /\ lall' = list_windows(windows, None, fg)
    /\ query' = lfilter[1]
    /\ fpc' = "done"
    /\ lpc' = "done"
    /\ UNCHANGED <<windows, idx, calls, lfilter>>
    /\ UNCHANGED <<captureVars, waitVars, opVars, toolVars, pairVars, scriptVars>>

LocateNext == FindAndList \/ ListWindowsRaises

LocateSpec == LocateInit /\ [][LocateNext]_vars

\* get_window_info on the result w of find_window
get_window_info(w, fg) ==
    IF w = None THEN None
    ELSE Some([title |-> w[1].title, left |-> w[1].left, top |-> w[1].top,
               width |-> w[1].width, height |-> w[1].height,
               minimized |-> w[1].minimized, maximized |-> w[1].maximized,
               active |-> (w[1].hwnd = fg)])

\* process_manager._window_rect
window_rect(w) ==
    [title |-> w.title, hwnd |-> w.hwnd, left |-> w.left, top |-> w.top,
     width |-> w.width, height |-> w.height]

\* an outcome of subprocess.Popen: "ok", or the exception raised and its str()
SpawnOutcome(kind, e) == [kind |-> kind, e |-> e]

SpawnOutcomes ==
    {SpawnOutcome("ok", <<>>), SpawnOutcome("FileNotFoundError", <<"[WinError 2]">>)}
    \cup {SpawnOutcome("OSError", e) : e \in ErrorTexts}

\* `cmd = [command] + (args or [])`
popen_cmd(command, args) == <<command>> \o (IF args = None THEN <<>> ELSE args[1])

open_application_spawn_one_except(command, outcome, pid) ==
    IF outcome.kind = "ok" THEN [pid |-> pid, command |-> command]
    ELSE [error |-> <<Lit("Failed to launch: "), Arg("e", outcome.e)>>]

\* open_application up to the wait: the error result or {pid, command}
open_application_spawn(command, outcome, pid) ==
    CASE outcome.kind = "FileNotFoundError" ->
            [error |-> <<Lit("Command not found: "), Arg("command", command)>>]
      [] outcome.kind = "OSError" ->
            [error |-> <<Lit("Failed to launch: "), Arg("e", outcome.e)>>]
      [] outcome.kind = "ok" -> [pid |-> pid, command |-> command]

open_application_waited_no_else(result, wait_for_window, timeout, window) ==
    (IF window # None THEN result @@ [window |-> window_rect(window[1])] ELSE result)
    @@ [window_warning |->
            <<Lit("Window matching '"), Arg("wait_for_window", wait_for_window),
              Lit("' not found within "), Arg("timeout", timeout), Lit("s")>>]

\* open_application after the wait: the window or the warning is attached
open_application_waited(result, wait_for_window, timeout, window) ==
    IF window # None
    THEN result @@ [window |-> window_rect(window[1])]
    ELSE result @@ [window_warning |->
                        <<Lit("Window matching '"), Arg("wait_for_window", wait_for_window),
                          Lit("' not found within "), Arg("timeout", timeout), Lit("s")>>]

\* the bytes `buffer.getvalue()` after `save(buffer, format="PNG")`
PngBytes == [encoding |-> "PNG"]

LibCall(api, arg) == [api |-> api, arg |-> arg]

\* the result of a capture function: the library calls it made, and either
\* the exception that left it or the bytes it returned
Captured(calls_made, error, data) == [calls |-> calls_made, error |-> error, data |-> data]

monitor_out_of_range_no_combined(monitor, mons) == monitor <= 0 \/ monitor >= Len(mons)

\* `monitor < 0 or monitor >= len(monitors)`
monitor_out_of_range(monitor, mons) == monitor < 0 \/ monitor >= Len(mons)

\* screenshot.capture_full_screen; grabbed is FALSE when sct.grab raises.
\* Python's monitors[monitor] is mons[monitor + 1]
capture_full_screen(monitor, mons, grabbed) ==
    IF monitor_out_of_range(monitor, mons)
    THEN Captured(<<>>,
                  Some(<<Lit("Monitor "), Arg("monitor", monitor),
                         Lit(" not found. Available: 0-"),
                         Arg("len(monitors) - 1", Len(mons) - 1),
                         Lit(" (0 = all monitors combined)")>>),
                  None)
    ELSE LET grab == LibCall("sct.grab", [index |-> monitor, monitor |-> mons[monitor + 1]])
         IN  IF grabbed THEN Captured(<<grab>>, None, Some(PngBytes))
             ELSE Captured(<<grab>>, Some(<<Arg("e", <<"Access denied">>)>>), None)

\* screenshot.capture_region; grabbed is FALSE when ImageGrab.grab raises
capture_region(x, y, width, height, grabbed) ==
    LET grab == LibCall("ImageGrab.grab", <<x, y, x + width, y + height>>)
    IN  IF grabbed THEN Captured(<<grab>>, None, Some(PngBytes))
        ELSE Captured(<<grab>>, Some(<<Arg("e", <<"Access denied">>)>>), None)

region_invalid_strict(width, height) == width < 0 \/ height < 0

\* server.screenshot_region: `width <= 0 or height <= 0`
region_invalid(width, height) == width <= 0 \/ height <= 0

\* server.screenshot_region up to the Image it builds
screenshot_region(x, y, width, height, grabbed) ==
    IF region_invalid(width, height)
    THEN Captured(<<>>,
                  Some(<<Lit("Invalid dimensions: "), Arg("width", width), Lit("x"),
                         Arg("height", height)>>),
                  None)
    ELSE capture_region(x, y, width, height, grabbed)

\* what a tool invocation gives the caller
ImageResult == [kind |-> "image", format |-> "png", data |-> PngBytes]

TextResult(parts) == [kind |-> "text", text |-> parts]

\* json.dumps(value, indent=2) of a dict ("object") or of a list ("array")
JsonResult(shape, value) == [kind |-> "json", shape |-> shape, value |-> value]

\* an exception left the tool function
ToolError(parts) == [kind |-> "error", text |-> parts]

image_tool_text(c) == IF c.error # None THEN TextResult(c.error[1]) ELSE ImageResult

\* `Image(data=data, format="png")` of the bytes, or the exception passed on
image_tool(c) == IF c.error # None THEN ToolError(c.error[1]) ELSE ImageResult

\* one line pair of the list_windows tool
window_line(w) ==
    LET state == IF w.minimized THEN " [minimized]"
                 ELSE IF w.maximized THEN " [maximized]" ELSE ""
    IN  <<Lit("- "), Fld("title", w.title),
          Lit(IF w.active THEN state \o " [active]" ELSE state),
          Lit("\n  Position: ("), Fld("left", w.left), Lit(", "), Fld("top", w.top),
          Lit(") Size: "), Fld("width", w.width), Lit("x"), Fld("height", w.height)>>

RECURSIVE window_lines(_)
window_lines(ws) ==
    IF ws = <<>> THEN <<>>
    ELSE IF Len(ws) = 1 THEN window_line(ws[1])
    ELSE window_line(ws[1]) \o <<Lit("\n")>> \o window_lines(Tail(ws))

\* server.list_windows on the entries window_manager.list_windows returned
server_list_windows(ws, filter) ==
    IF ws = <<>>
    THEN <<Lit("No visible windows found")>>
         \o (IF filter # None /\ Truthy(filter[1])
             THEN <<Lit(" matching '"), Arg("filter", filter[1]), Lit("'")>>
             ELSE <<>>)
    ELSE <<Lit("Found "), Arg("len(windows)", Len(ws)), Lit(" window(s):\n\n")>>
         \o window_lines(ws)

list_monitors_with_combined(raw) ==
    [i \in 1..Len(raw) |->
        [index |-> i - 1, width |-> raw[i].width, height |-> raw[i].height,
         x |-> raw[i].left, y |-> raw[i].top,
         is_primary |-> (raw[i].left = 0 /\ raw[i].top = 0)]]

\* list_monitors: one record per raw entry after the combined one
list_monitors(raw) ==
    [i \in 1..(Len(raw) - 1) |->
        [index |-> i, width |-> raw[i + 1].width, height |-> raw[i + 1].height,
         x |-> raw[i + 1].left, y |-> raw[i + 1].top,
         is_primary |-> (raw[i + 1].left = 0 /\ raw[i + 1].top = 0)]]

Monitor(l, t, w, h) == [left |-> l, top |-> t, width |-> w, height |-> h]

\* where a physical monitor may have its top-left corner
MonitorOrigins == {0, 2} \X {0, 1}

\* the raw list: the combined entry, then the n physical monitors at origins f
RawMonitors(n, f) ==
    <<Monitor(0, 0, 4, 2)>> \o [i \in 1..n |-> Monitor(f[i][1], f[i][2], 2, 1)]

\* the raw monitor lists with up to MaxMonitors physical monitors
MonitorLists ==
    UNION {{RawMonitors(n, f) : f \in [1..n -> MonitorOrigins]} : n \in 0..MaxMonitors}

\* the commands and argument lists of open_application
Commands == {<<"c">>, <<"n", "o">>}

LaunchArgs == {None, Some(<<<<"x">>>>)}

\* the rectangle GetWindowRect reports: as laid out, of width 0, or of height -1
WindowShapes == {"normal", "empty", "inverted"}

Shaped(w, shape) ==
    CASE shape = "normal" -> w
      [] shape = "empty" -> [w EXCEPT !.right = w.left]
      [] shape = "inverted" -> [w EXCEPT !.bottom = w.top - 1]

ToolCall(name, text, nums) == [name |-> name, text |-> text, nums |-> nums]

\* optional text arguments: absent, empty, or a title
OptTexts == {None, Some(<<>>), Some(<<"a">>)}

\* timeouts of the tools, whole seconds in ticks
ToolTimeouts == {0, 10}

ToolCalls ==
    {ToolCall(o.name, Some(o.title), <<o.width, o.height, o.x, o.y>>) : o \in Ops}
    \cup {ToolCall("take_screenshot", None, <<m>>) : m \in -1..(MaxMonitors + 1)}
    \cup {ToolCall("screenshot_window", Some(<<"a">>), <<>>)}
    \cup {ToolCall("screenshot_region", None, <<x, y, w, h>>) :
            x \in -1..1, y \in -1..1, w \in -1..MaxCoord, h \in -1..MaxCoord}
    \cup {ToolCall("list_windows", f, <<>>) : f \in OptTexts}
    \cup {ToolCall("get_window_info", Some(<<"a">>), <<>>)}
    \cup {ToolCall("list_monitors", None, <<>>)}
    \cup {ToolCall("wait_for_window", Some(<<"a">>), <<t>>) : t \in ToolTimeouts}
    \cup {[command |-> c, args |-> a] @@ ToolCall("open_application", f, <<t>>) :
            c \in Commands, a \in LaunchArgs, f \in OptTexts, t \in ToolTimeouts}

ToolInit ==
    /\ tool \in ToolCalls
    /\ ListIdle
    /\ PairIdle
    /\ ScriptIdle
    /\ \E n \in (IF tool.name \in {"take_screenshot", "screenshot_region", "list_monitors"}
                 THEN {0} ELSE 0..MaxWindows) :
         \E f \in [1..n -> {<<"A">>, <<" ">>} \X ShowCmds] :
            /\ \E z \in [1..n -> (IF tool.name = "screenshot_window"
                                   THEN WindowShapes ELSE {"normal"})] :
                    windows = [i \in 1..n |-> Shaped(OpTable(n, f)[i], z[i])]
            /\ foreground \in (IF tool.name \in OpNames THEN 0..n ELSE {0})
    /\ FindIdle
    /\ CaptureIdle
    /\ WaitIdle
    /\ monitors \in (IF tool.name \in {"take_screenshot", "list_monitors"}
                     THEN MonitorLists ELSE {RawMonitors(0, <<>>)})
    /\ tpc = "call"
    /\ lres = <<>>
    /\ tres = <<>>
    /\ tcalls = <<>>
    /\ sameThread \in (IF tool.name \in OpNames THEN BOOLEAN ELSE {TRUE})
    /\ IF tool.name \in OpNames
       THEN /\ op = [name |-> tool.name, title |-> tool.text[1],
                     width |-> tool.nums[1], height |-> tool.nums[2],
                     x |-> tool.nums[3], y |-> tool.nums[4]]
            /\ opc = "find"
            /\ ow = None
            /\ prog = <<>>
            /\ oslog = <<>>
            /\ attached = FALSE
            /\ ofault = <<>>
            /\ ores = <<>>
       ELSE OpRest

\* the tool returns x
ToolReturns(x) ==
    /\ tpc' = "done"
    /\ tres' = x
    /\ UNCHANGED <<monitors, tool, lres>>

\* take_screenshot -> capture_full_screen(monitor)
TakeScreenshot ==
    /\ tpc = "call"
    /\ tool.name = "take_screenshot"
    /\ \E grabbed \in BOOLEAN :
         LET c == capture_full_screen(tool.nums[1], monitors, grabbed)
         IN  /\ grabbed \/ c.calls # <<>>
             /\ tcalls' = c.calls
             /\ ToolReturns(image_tool(c))
    /\ UNCHANGED notTool

\* screenshot_window -> find_window, capture_window_hwnd(w["hwnd"])
ScreenshotWindow ==
    /\ tpc = "call"
    /\ tool.name = "screenshot_window"
    /\ \E o \in FindOutcomes(windows, tool.text[1]) :
         IF o.found = None
         THEN /\ tcalls' = <<>>
              /\ ToolReturns(ToolError(no_window_message(tool.text[1])))
         ELSE LET w == o.found[1]
              IN  /\ tcalls' = <<LibCall("capture_window_hwnd", w.hwnd)>>
                  /\ IF invalid_dimensions(<<w.left, w.top, w.left + w.width, w.top + w.height>>)
                     THEN ToolReturns(ToolError(
                              <<Lit("Window has invalid dimensions: "), Arg("width", w.width),
                                Lit("x"), Arg("height", w.height)>>))
                     ELSE \E captured \in BOOLEAN :
                              ToolReturns(IF captured THEN ImageResult
                                          ELSE ToolError(<<Arg("e", <<"Access denied">>)>>))
    /\ UNCHANGED notTool

\* screenshot_region -> capture_region(x, y, width, height)
ScreenshotRegion ==
    /\ tpc = "call"
    /\ tool.name = "screenshot_region"
    /\ \E grabbed \in BOOLEAN :
         LET c == screenshot_region(tool.nums[1], tool.nums[2], tool.nums[3], tool.nums[4],
                                    grabbed)
         IN  /\ grabbed \/ c.calls # <<>>
             /\ tcalls' = c.calls
             /\ ToolReturns(image_tool(c))
    /\ UNCHANGED notTool

\* list_windows: EnumWindows may raise, nothing catches it
ListWindows ==
    /\ tpc = "call"
    /\ tool.name = "list_windows"
    /\ \/ ToolReturns(ToolError(<<Arg("e", <<"Access denied">>)>>))
       \/ \E fg \in [DOMAIN windows -> 0..Len(windows)] :
            ToolReturns(TextResult(
                server_list_windows(list_windows(windows, tool.text, fg), tool.text)))
    /\ UNCHANGED tcalls
    /\ UNCHANGED notTool

\* get_window_info: GetForegroundWindow is queried after find_window returned
GetWindowInfo ==
    /\ tpc = "call"
    /\ tool.name = "get_window_info"
    /\ \E o \in FindOutcomes(windows, tool.text[1]), fg \in 0..Len(windows) :
         LET info == get_window_info(o.found, fg)
         IN  IF info = None
             THEN ToolReturns(TextResult(no_window_message(tool.text[1])))
             ELSE ToolReturns(JsonResult("object", info[1]))
    /\ UNCHANGED tcalls
    /\ UNCHANGED notTool

\* list_monitors
ListMonitors ==
    /\ tpc = "call"
    /\ tool.name = "list_monitors"
    /\ lres' = list_monitors(monitors)
    /\ tres' = IF lres' = <<>> THEN TextResult(<<Lit("No monitors found")>>)
               ELSE JsonResult("array", lres')
    /\ tpc' = "done"
    /\ UNCHANGED <<monitors, tool, tcalls>>
    /\ UNCHANGED notTool

\* focus_window .. restore_window: the tool returns the operation's string
OperationTool ==
    /\ tpc = "call"
    /\ tool.name \in OpNames
    /\ opc = "done"
    /\ ToolReturns(TextResult(ores))
    /\ UNCHANGED tcalls
    /\ UNCHANGED notTool

\* the waiter is entered: `start = time.time()`
WaitStarts(wtr, title, timeout) ==
    /\ waiter' = wtr
    /\ wtitle' = title
    /\ wtimeout' = timeout
    /\ wstart' = clock
    /\ wpc' = "check"
    /\ welapsed' = 0
    /\ wchecked' = 0
    /\ wresult' = None
    /\ nfound' = 0
    /\ nfailed' = 0
    /\ sleeps' = 0
    /\ lastsleep' = <<0, 0>>
    /\ drift' = 0
    /\ presence' = IF Present(windows, title) THEN "always" ELSE "never"
    /\ UNCHANGED clock

\* the wait_for_window tool enters window_manager.wait_for_window
WaitForWindowCalled ==
    /\ tpc = "call"
    /\ tool.name = "wait_for_window"
    /\ WaitStarts("wm", tool.text[1], tool.nums[1])
    /\ tpc' = "wait"
    /\ UNCHANGED <<monitors, tool, lres, tres, tcalls>>
    /\ UNCHANGED <<windows, findVars, captureVars, opVars, listVars, pairVars, scriptVars>>

\* window_manager.wait_for_window returned its string
WaitForWindowTool ==
    /\ tpc = "wait"
    /\ tool.name = "wait_for_window"
    /\ wpc = "done"
    /\ ToolReturns(TextResult(wresult))
    /\ UNCHANGED tcalls
    /\ UNCHANGED notTool

\* open_application: subprocess.Popen, then the waiter if a title was given
OpenApplicationSpawn ==
    /\ tpc = "call"
    /\ tool.name = "open_application"
    /\ \E outcome \in SpawnOutcomes :
         LET result == open_application_spawn(tool.command, outcome, 1)
         IN  /\ tcalls' = <<LibCall("Popen", [cmd |-> popen_cmd(tool.command, tool.args),
                                              outcome |-> outcome])>>
             /\ lres' = result
             /\ IF outcome.kind = "ok" /\ tool.text # None /\ Truthy(tool.text[1])
                THEN /\ WaitStarts("pm", tool.text[1], tool.nums[1])
                     /\ tpc' = "wait"
                     /\ UNCHANGED tres
                ELSE /\ tpc' = "done"
                     /\ tres' = JsonResult("object", result)
                     /\ UNCHANGED waitVars
    /\ UNCHANGED <<monitors, tool>>
    /\ UNCHANGED <<windows, findVars, captureVars, opVars, listVars, pairVars, scriptVars>>

\* open_application: _wait_for_window returned; json.dumps of the result
OpenApplicationTool ==
    /\ tpc = "wait"
    /\ tool.name = "open_application"
    /\ wpc = "done"
    /\ lres' = open_application_waited(lres, tool.text[1], tool.nums[1], wresult)
    /\ tres' = JsonResult("object", lres')
    /\ tpc' = "done"
    /\ UNCHANGED <<monitors, tool, tcalls>>
    /\ UNCHANGED notTool

ToolNext ==
    \/ TakeScreenshot \/ ScreenshotWindow \/ ScreenshotRegion
    \/ ListWindows \/ GetWindowInfo \/ ListMonitors
    \/ OpFind \/ OpCall \/ OpCallRaises \/ OpReturn \/ OperationTool
    \/ WaitForWindowCalled \/ WaitForWindowTool
    \/ OpenApplicationSpawn \/ OpenApplicationTool
    \/ WaitCheck \/ WaitPoll \/ WaitElapsed \/ WaitSleep \/ Tick \/ WindowTableChanges

ToolSpec == ToolInit /\ [][ToolNext]_vars

\* the tools that read the monitor list
MonitorInit == ToolInit /\ tool.name \in {"take_screenshot", "list_monitors"}

MonitorNext == TakeScreenshot \/ ListMonitors

MonitorSpec == MonitorInit /\ [][MonitorNext]_vars

\* the tools whose validation can fail: the three capture tools and
\* open_application
ValidationInit ==
    /\ ToolInit
    /\ tool.name \in {"take_screenshot", "screenshot_region", "screenshot_window",
                      "open_application"}

ValidationNext ==
    \/ TakeScreenshot \/ ScreenshotWindow \/ ScreenshotRegion
    \/ OpenApplicationSpawn \/ OpenApplicationTool
    \/ WaitCheck \/ WaitPoll \/ WaitElapsed \/ WaitSleep \/ Tick \/ WindowTableChanges

ValidationSpec == ValidationInit /\ [][ValidationNext]_vars

\* open_application alone, with the waiter it runs
LaunchInit == ToolInit /\ tool.name = "open_application"

LaunchNext ==
    \/ OpenApplicationSpawn \/ OpenApplicationTool
    \/ WaitCheck \/ WaitPoll \/ WaitElapsed \/ WaitSleep \/ Tick \/ WindowTableChanges

LaunchSpec == LaunchInit /\ [][LaunchNext]_vars

-----------------------------------------------------------------------------
(* process_manager.run_python_script *)

\* run_python_script up to the wait: the error result or {pid, script}
run_python_script_spawn(script_path, outcome, pid) ==
    IF outcome.kind = "ok" THEN [pid |-> pid, script |-> script_path]
    ELSE [error |-> <<Lit("Failed to run script: "), Arg("e", outcome.e)>>]

\* `find_window(wait_for_window) or window`
find_window_or(again, window) == IF again # None THEN again ELSE window

\* what proc.communicate(timeout=3) adds to the result
communicate_result(ended) ==
    IF ended = "exited"
    THEN [stdout |-> <<Lit("stdout")>>, stderr |-> <<Lit("stderr")>>, returncode |-> 0]
    ELSE [note |-> <<Lit("Process still running (GUI app likely)")>>]

\* capture_after, in ticks: none, or the default 2.0 s
CaptureAfters == {0, 20}

ScriptTimeouts == {0, 3}

Scripts ==
    {[path |-> <<"s">>, wait |-> t, capture_after |-> c, timeout |-> n] :
        t \in {None, Some(<<>>), Some(<<"a">>)}, c \in CaptureAfters, n \in ScriptTimeouts}

\* the tables met after the sleep: those of the wait, or the window retitled
\* and resized by the application
ScriptTables ==
    WaitTables
    \cup {<<[Window(1, TRUE, <<"A", " ">>, 1) EXCEPT !.right = @ + 1, !.bottom = @ + 1]>>}

\* the waiter's variables other than the clock
waitLocals == <<waiter, wtitle, wtimeout, wstart, wpc, welapsed, wchecked, wresult,
                nfound, nfailed, sleeps, lastsleep, drift, presence>>

ScriptInit ==
    /\ windows \in WaitTables
    /\ FindIdle
    /\ CaptureIdle
    /\ WaitIdle
    /\ OpIdle
    /\ ToolIdle
    /\ ListIdle
    /\ PairIdle
    /\ script \in Scripts
    /\ spc = "spawn"
    /\ sfirst = None
    /\ sagain = None
    /\ sres = <<>>

\* subprocess.Popen([sys.executable, script_path]), then the waiter if a
\* title was given
ScriptSpawn ==
    /\ spc = "spawn"
    /\ \E outcome \in SpawnOutcomes :
         /\ sres' = run_python_script_spawn(script.path, outcome, 1)
         /\ IF outcome.kind # "ok"
            THEN spc' = "done" /\ UNCHANGED waitVars
            ELSE IF script.wait # None /\ Truthy(script.wait[1])
            THEN WaitStarts("pm", script.wait[1], script.timeout) /\ spc' = "wait"
            ELSE spc' = "communicate" /\ UNCHANGED waitVars
    /\ UNCHANGED <<windows, script, sfirst, sagain>>
    /\ UNCHANGED <<findVars, captureVars, opVars, toolVars, listVars, pairVars>>

\* _wait_for_window returned: `if window:` or the window_warning
ScriptWaited ==
    /\ spc = "wait"
    /\ wpc = "done"
    /\ sfirst' = wresult
    /\ IF wresult # None
       THEN spc' = "sleep" /\ UNCHANGED sres
       ELSE /\ spc' = "communicate"
            /\ sres' = sres @@ [window_warning |->
                                    <<Lit("Window matching '"),
                                      Arg("wait_for_window", script.wait[1]),
                                      Lit("' not found within "),
                                      Arg("timeout", script.timeout), Lit("s")>>]
    /\ UNCHANGED <<windows, script, sagain>>
    /\ UNCHANGED notScript

\* `time.sleep(capture_after)`
ScriptSleep ==
    /\ spc = "sleep"
    /\ clock' = clock + script.capture_after
    /\ spc' = "requery"
    /\ UNCHANGED <<windows, script, sfirst, sagain, sres, waitLocals>>
    /\ UNCHANGED <<findVars, captureVars, opVars, toolVars, listVars, pairVars>>

\* the window changed or closed during the sleep
ScriptTableChanges ==
    /\ spc = "requery"
    /\ windows' \in ScriptTables \ {windows}
    /\ UNCHANGED scriptVars
    /\ UNCHANGED notScript

\* `window = find_window(wait_for_window) or window` and
\* `result["window"] = _window_rect(window)`
ScriptRequery ==
    /\ spc = "requery"
    /\ \E o \in FindOutcomes(windows, script.wait[1]) :
         /\ sagain' = o.found
         /\ sres' = sres @@ [window |-> window_rect(find_window_or(o.found, sfirst)[1])]
    /\ spc' = "communicate"
    /\ UNCHANGED <<windows, script, sfirst>>
    /\ UNCHANGED notScript

\* `proc.communicate(timeout=3)` returns the output or raises TimeoutExpired
ScriptCommunicate ==
    /\ spc = "communicate"
    /\ \E ended \in {"exited", "TimeoutExpired"} : sres' = sres @@ communicate_result(ended)
    /\ spc' = "done"
    /\ UNCHANGED <<windows, script, sfirst, sagain>>
    /\ UNCHANGED notScript

ScriptNext ==
    \/ ScriptSpawn \/ ScriptWaited \/ ScriptSleep \/ ScriptTableChanges
    \/ ScriptRequery \/ ScriptCommunicate
    \/ WaitCheck \/ WaitPoll \/ WaitElapsed \/ WaitSleep \/ Tick \/ WindowTableChanges

ScriptSpec == ScriptInit /\ [][ScriptNext]_vars

-----------------------------------------------------------------------------
(* Properties of find_window *)

\* position of the first qualifying window of the table, 0 if there is none
FirstQualifying(tbl, q) ==
    IF \E i \in DOMAIN tbl : Qualifies(tbl[i], q)
    THEN CHOOSE i \in DOMAIN tbl :
            Qualifies(tbl[i], q) /\ \A j \in 1..(i - 1) : ~Qualifies(tbl[j], q)
    ELSE 0

\* the record find_window builds for the window at position i
InfoAt(i) ==
    [title |-> windows[i].title, hwnd |-> windows[i].hwnd,
     left |-> windows[i].left, top |-> windows[i].top,
     width |-> windows[i].right - windows[i].left,
     height |-> windows[i].bottom - windows[i].top,
     minimized |-> (windows[i].show_cmd = 2), maximized |-> (windows[i].show_cmd = 3)]

PositionOf(h) == CHOOSE i \in DOMAIN windows : windows[i].hwnd = h

\* C2: find_window returns the first window in enumeration order that is
\* visible, non-blank and contains the query case-insensitively, and once a
\* match is recorded no window after it is queried (no IsWindowVisible, no
\* GetWindowText), even when the enumerator keeps invoking the callback.
C2_FirstMatchShortCircuit ==
    /\ (fpc = "done" /\ found # None) =>
            /\ FirstQualifying(windows, query) # 0
            /\ found = Some(InfoAt(FirstQualifying(windows, query)))
    /\ (fpc = "done" /\ ~swallowed /\ FirstQualifying(windows, query) # 0) => found # None
    /\ ctx # <<>> =>
            /\ Len(ctx) = 1
            /\ \A k \in DOMAIN calls : PositionOf(calls[k][2]) <= PositionOf(ctx[1].hwnd)
            /\ calls[Len(calls)] = <<"GetWindowPlacement", ctx[1].hwnd>>

\* the enumerator invoked the callback again after the match and then returned
C2_Witness ==
    /\ fpc = "done"
    /\ found # None
    /\ idx = PositionOf(found[1].hwnd) + 2

\* C3 (as stated): for every visible window w with a non-blank title and every
\* case permutation s of a substring of its title, find_window(s) returns w.
C3_AnySubstringReturnsThatWindow ==
    fpc = "done" =>
        \A i \in DOMAIN windows :
            Qualifies(windows[i], query) => found = Some(InfoAt(i))

\* C3 (amended): when some window qualifies for s, find_window(s) returns the
\* FIRST qualifying window in enumeration order (w itself when no earlier
\* window qualifies), unless the enumeration failed before a match was
\* recorded, in which case the result is absent.
C3_SubstringReturnsFirstQualifying ==
    fpc = "done" =>
        \A i \in DOMAIN windows :
            Qualifies(windows[i], query) =>
                \/ swallowed /\ ctx = <<>> /\ found = None
                \/ /\ found = Some(InfoAt(FirstQualifying(windows, query)))
                   /\ FirstQualifying(windows, query) <= i
                   /\ (\A j \in 1..(i - 1) : ~Qualifies(windows[j], query)) =>
                            found = Some(InfoAt(i))

\* a window was found through a query whose letter case differs from the title's
C3_Witness ==
    /\ fpc = "done"
    /\ found # None
    /\ NonBlank(query)
    /\ ~Contains(query, found[1].title)

\* C4: whatever the query (empty and whitespace-only included), the window
\* find_window returns is visible and its title is neither empty nor
\* whitespace-only.
C4_NeverInvisibleOrBlank ==
    /\ \A k \in DOMAIN ctx :
            \E i \in DOMAIN windows :
                /\ windows[i].hwnd = ctx[k].hwnd
                /\ windows[i].visible
                /\ NonBlank(windows[i].title)
    /\ found # None =>
            \E i \in DOMAIN windows :
                /\ windows[i].hwnd = found[1].hwnd
                /\ windows[i].title = found[1].title
                /\ windows[i].visible
                /\ NonBlank(windows[i].title)

\* the only window enumerated is visible with a whitespace-only title, the
\* query is whitespace, and the completed search returned nothing
C4_Witness ==
    /\ fpc = "done"
    /\ ~swallowed
    /\ Len(windows) = 1
    /\ windows[1].visible
    /\ windows[1].title = <<" ">>
    /\ query = <<" ">>
    /\ found = None

\* C5: an enumeration failure never leaves find_window; a failure before any
\* match was recorded gives absent, a failure after a match gives that match.
C5_FailureSwallowed ==
    /\ ~raised
    /\ (fpc = "done" /\ swallowed) =>
            /\ ctx = <<>> => found = None
            /\ ctx # <<>> => found = Some(ctx[1])

\* the enumeration failed after a match had been recorded
C5_Witness ==
    /\ fpc = "done"
    /\ swallowed
    /\ ctx # <<>>
    /\ found # None

-----------------------------------------------------------------------------
(* Properties of the waiter *)

\* the waiter returned a window
ReturnedWindow ==
    /\ wpc = "done"
    /\ nfound > 0

\* the waiter returned absent (the timeout message for wait_for_window)
ReturnedAbsent ==
    /\ wpc = "done"
    /\ nfound = 0

\* C6: for every timeout, 0 and negative included, the waiter calls
\* find_window at least once before it returns; so a matching window present
\* from the start of the wait to its end is returned, never a timeout.
C6_PollsAtLeastOnce ==
    wpc = "done" =>
        /\ nfound + nfailed >= 1
        /\ presence = "always" => ReturnedWindow

\* C7: when no matching window ever appears and time advances only during
\* sleeps, the waiter called with timeout T >= 0 returns absent at an elapsed
\* time t with T <= t <= T + one sleep interval (2 ticks when the last sleep
\* began before 50 ticks had elapsed, 5 ticks afterwards).
C7_TimeoutWithinOneSleep ==
    (wpc = "done" /\ presence = "never" /\ drift = 0 /\ wtimeout >= 0) =>
        /\ ReturnedAbsent
        /\ wtimeout <= clock - wstart
        /\ clock - wstart <= wtimeout + (IF lastsleep[1] < 50 THEN 2 ELSE 5)

\* a timeout above 5 s expired, later than asked for, after a 0.5 s sleep
C7_Witness ==
    /\ ReturnedAbsent
    /\ presence = "never"
    /\ drift = 0
    /\ wtimeout > 50
    /\ clock - wstart > wtimeout
    /\ lastsleep[2] = 5

\* C8: after each failed poll the waiter sleeps exactly once, for 2 ticks if
\* the elapsed time measured after that poll is strictly below 50 ticks and
\* for 5 ticks otherwise (exactly 50 gives 5); no sleep follows a successful
\* poll, so on success the number of sleeps equals the number of failed polls.
C8_OneAdaptiveSleepPerFailedPoll ==
    /\ sleeps > 0 => lastsleep[2] = (IF lastsleep[1] < 50 THEN 2 ELSE 5)
    /\ (sleeps > 0 /\ wpc \in {"check", "poll", "done"}) => lastsleep[1] = welapsed
    /\ wpc \in {"elapsed", "sleep"} => nfailed = sleeps + 1
    /\ wpc \in {"check", "poll", "done"} => nfailed = sleeps
    /\ wpc = "sleep" => welapsed <= clock - wstart
    /\ nfound <= 1
    /\ nfound = 1 => wpc = "done"

\* a poll failed when exactly 5 s had elapsed, the 0.5 s sleep followed, and
\* a later poll succeeded
C8_Witness ==
    /\ ReturnedWindow
    /\ lastsleep = <<50, 5>>
    /\ sleeps = nfailed

-----------------------------------------------------------------------------
(* Properties of the window operations *)

\* C9: whatever the OS calls do (a failing enumeration and a failing action
\* call included), each of the six operations returns a string and never
\* raises: 'No window found matching' when nothing matches, 'Failed to ...'
\* carrying the OS error text when the action fails, the success message
\* otherwise.
C9_OperationsNeverRaise ==
    /\ opc # "raised"
    /\ opc = "done" =>
        /\ ow = None =>
                /\ ores[1] = [lit |-> "No window found matching '"]
                /\ ores[2].value = op.title
        /\ (ow # None /\ ofault # <<>>) =>
                /\ ores[1] = [lit |-> "Failed to "]
                /\ ores[2] = [lit |-> op.name]
                /\ ores[Len(ores)].value = ofault
        /\ (ow # None /\ ofault = <<>>) =>
                /\ ores[1] = [lit |-> "Window '"]
                /\ ores[2].value = ow[1].title
                /\ ores[4].lit =
                        CASE op.name = "focus" -> "is now focused"
                          [] op.name = "resize" -> "resized to "
                          [] op.name = "move" -> "moved to ("
                          [] OTHER -> op.name \o "d"
                /\ prog = <<>>

\* an OS call of focus_window raised inside _force_foreground and the
\* operation returned its failure message
C9_Witness ==
    /\ opc = "done"
    /\ op.name = "focus"
    /\ ow # None
    /\ ofault = <<"Access denied">>
    /\ ores[1] = [lit |-> "Failed to "]
    /\ oslog[Len(oslog)].api = "AttachThreadInput"

-----------------------------------------------------------------------------
(* Properties of the tool results *)

\* some part of a formatted text is the hwnd field of a window record
TextHasHwnd(parts) ==
    \E k \in DOMAIN parts : "field" \in DOMAIN parts[k] /\ parts[k].field = "hwnd"

\* the tool result r carries a window handle
ExposesHwnd(r) ==
    CASE r.kind = "image" -> FALSE
      [] r.kind \in {"text", "error"} -> TextHasHwnd(r.text)
      [] r.kind = "json" /\ r.shape = "array" ->
            \E k \in DOMAIN r.value : "hwnd" \in DOMAIN r.value[k]
      [] r.kind = "json" /\ r.shape = "object" ->
            \/ "hwnd" \in DOMAIN r.value
            \/ "window" \in DOMAIN r.value /\ "hwnd" \in DOMAIN r.value.window

\* C10: no result a tool returns to its caller contains a window
\* handle.
C10_HandleNeverExposed == tpc = "done" => ~ExposesHwnd(tres)

-----------------------------------------------------------------------------
(* Properties of open_application *)

\* the outcome of the Popen call open_application made
Spawned == tcalls[1].arg.outcome

\* C11: when the executable cannot be resolved the result is exactly
\* {error: 'Command not found: <command>'}, for any other spawn failure it is
\* exactly {error: 'Failed to launch: <reason>'}; it has no pid, window or
\* warning, and the waiter is never entered, so no window is polled.
C11_SpawnFailureResult ==
    (tool.name = "open_application" /\ tcalls # <<>> /\ Spawned.kind # "ok") =>
        /\ tpc = "done"
        /\ DOMAIN lres = {"error"}
        /\ Spawned.kind = "FileNotFoundError" =>
                lres.error = <<Lit("Command not found: "), Arg("command", tool.command)>>
        /\ Spawned.kind # "FileNotFoundError" =>
                lres.error = <<Lit("Failed to launch: "), Arg("e", Spawned.e)>>
        /\ tres = JsonResult("object", lres)
        /\ wpc = "idle"
        /\ nfound + nfailed = 0

\* the executable was not found although a wait title was given and a
\* matching window was on screen
C11_Witness ==
    /\ tool.name = "open_application"
    /\ tpc = "done"
    /\ Spawned.kind = "FileNotFoundError"
    /\ tool.text = Some(<<"a">>)
    /\ Present(windows, <<"a">>)
    /\ tres.value = [error |-> <<Lit("Command not found: "), Arg("command", <<"n", "o">>)>>]

\* C13: after a successful spawn the result of open_application has pid and
\* command and no error; it has window iff a wait title was given and the
\* waiter found a match, window_warning iff a wait title was given and the
\* waiter timed out, neither when no wait title was given, and never both.
C13_LaunchResultShape ==
    (tool.name = "open_application" /\ tpc = "done" /\ Spawned.kind = "ok") =>
        LET given == tool.text # None
            matched == wpc = "done" /\ nfound > 0
            timed_out == wpc = "done" /\ nfound = 0
            keys == DOMAIN tres.value
        IN  /\ tres.kind = "json"
            /\ tres.value = lres
            /\ {"pid", "command"} \subseteq keys
            /\ "error" \notin keys
            /\ lres.command = tool.command
            /\ "window" \in keys <=> (given /\ matched)
            /\ "window_warning" \in keys <=> (given /\ timed_out)
            /\ ~given => keys = {"pid", "command"}
            /\ ~("window" \in keys /\ "window_warning" \in keys)

\* the waited window appeared after a failed poll and was attached
C13_Witness ==
    /\ tool.name = "open_application"
    /\ tpc = "done"
    /\ Spawned.kind = "ok"
    /\ nfailed > 0
    /\ nfound > 0
    /\ "window" \in DOMAIN tres.value
    /\ tres.value.window.title = <<"A">>

-----------------------------------------------------------------------------
(* Properties of the error styles *)

\* the window whose handle screenshot_window passed to capture_window_hwnd
CapturedWindow == CHOOSE i \in DOMAIN windows : windows[i].hwnd = tcalls[1].arg

\* the tool was given an out-of-range monitor, a region or a window of
\* invalid dimensions
ValidationFails ==
    \/ /\ tool.name = "take_screenshot"
       /\ (tool.nums[1] < 0 \/ tool.nums[1] >= Len(monitors))
    \/ /\ tool.name = "screenshot_region"
       /\ (tool.nums[3] <= 0 \/ tool.nums[4] <= 0)
    \/ /\ tool.name = "screenshot_window"
       /\ tcalls # <<>>
       /\ LET w == windows[CapturedWindow]
          IN  w.right - w.left <= 0 \/ w.bottom - w.top <= 0

CommandNotFound ==
    /\ tool.name = "open_application"
    /\ tcalls # <<>>
    /\ Spawned.kind = "FileNotFoundError"

\* C12 (as stated): an out-of-range monitor index, invalid region
\* dimensions, invalid window dimensions and command-not-found each surface
\* as a failure of the tool invocation, never as a successful result.
C12_AllFourSurfaceAsFailures ==
    (tpc = "done" /\ (ValidationFails \/ CommandNotFound)) => tres.kind = "error"

\* C12 (amended): an out-of-range monitor index, invalid region dimensions
\* and invalid window dimensions each surface as a failure of the tool
\* invocation; command-not-found does not: open_application returns it as a
\* successful result, the JSON object {error: 'Command not found: <command>'}.
C12_ValidationFailuresRaise ==
    tpc = "done" =>
        /\ ValidationFails => tres.kind = "error"
        /\ CommandNotFound =>
                /\ tres.kind = "json"
                /\ tres.value =
                       [error |-> <<Lit("Command not found: "), Arg("command", tool.command)>>]

\* screenshot_window found a window of width 0 and failed
C12_Witness ==
    /\ tpc = "done"
    /\ tool.name = "screenshot_window"
    /\ tcalls # <<>>
    /\ windows[CapturedWindow].right = windows[CapturedWindow].left
    /\ tres.kind = "error"
    /\ tres.text[1] = Lit("Window has invalid dimensions: ")

-----------------------------------------------------------------------------
(* Properties of the dimension checks *)

\* the rectangle GetWindowRect returned has width <= 0 or height <= 0
Degenerate == crect[3] - crect[1] <= 0 \/ crect[4] - crect[2] <= 0

\* C19: capture_window_hwnd fails with the invalid-dimensions error exactly
\* when the rectangle GetWindowRect returned has width <= 0 or height <= 0,
\* and then no device context and no bitmap is acquired at any point of the
\* call.
C19_InvalidDimensionsBeforeAcquire ==
    /\ cexit = "ValueError: invalid dimensions" => Degenerate
    /\ (Degenerate /\ cpc >= 2 /\ cexit # "running") => cexit = "ValueError: invalid dimensions"
    /\ (Degenerate /\ cexit # "idle") => (acquired = {} /\ held = {} /\ cpc <= 2)

\* right < left: the call failed at the dimension check
C19_Witness ==
    /\ cexit = "ValueError: invalid dimensions"
    /\ crect = <<2, 0, 1, 1>>
    /\ cpc = 2
    /\ acquired = {}

\* the screenshot_region tool failed with its invalid-dimensions error
RegionError == tres.kind = "error" /\ tres.text[1] = Lit("Invalid dimensions: ")

\* C20: screenshot_region fails with the invalid-dimensions error, without
\* calling the capture layer, exactly when width <= 0 or height <= 0; for
\* positive width and height it captures the box (x, y, x + width, y + height),
\* x and y unchanged, negative ones included.
C20_RegionValidation ==
    (tool.name = "screenshot_region" /\ tpc = "done") =>
        LET x == tool.nums[1]
            y == tool.nums[2]
            width == tool.nums[3]
            height == tool.nums[4]
            invalid == width <= 0 \/ height <= 0
        IN  /\ RegionError <=> invalid
            /\ invalid => tcalls = <<>>
            /\ ~invalid => tcalls = <<LibCall("ImageGrab.grab", <<x, y, x + width, y + height>>)>>

\* a region with negative x and y was captured
C20_Witness ==
    /\ tool.name = "screenshot_region"
    /\ tpc = "done"
    /\ tool.nums = <<-1, -1, 2, 1>>
    /\ tcalls = <<LibCall("ImageGrab.grab", <<-1, -1, 1, 0>>)>>
    /\ tres.kind = "image"

-----------------------------------------------------------------------------
(* Properties of the monitor list *)

\* the tool failed with capture_full_screen's out-of-range error
OutOfRangeError == tres.kind = "error" /\ tres.text[1] = Lit("Monitor ")

\* C14: capture_full_screen(i) fails with the out-of-range error exactly
\* when i < 0 or i >= the number of raw monitor entries, and then makes no
\* grab; for every other i it makes exactly one grab, of entry i, and returns
\* PNG bytes (an exception of the grab itself is passed on).  In particular
\* index 1 fails when only the combined entry exists.
C14_MonitorRange ==
    (tool.name = "take_screenshot" /\ tpc = "done") =>
        LET i == tool.nums[1]
            out == i < 0 \/ i >= Len(monitors)
        IN  /\ OutOfRangeError <=> out
            /\ out => tcalls = <<>>
            /\ ~out =>
                  /\ tcalls = <<LibCall("sct.grab", [index |-> i, monitor |-> monitors[i + 1]])>>
                  /\ \/ tres.kind = "image" /\ tres.data = [encoding |-> "PNG"]
                     \/ tres = ToolError(<<Arg("e", <<"Access denied">>)>>)
            /\ (i = 1 /\ Len(monitors) = 1) => OutOfRangeError

\* the second of two physical monitors was grabbed and came back as an image
C14_Witness ==
    /\ tool.name = "take_screenshot"
    /\ tpc = "done"
    /\ Len(monitors) = 3
    /\ tcalls # <<>>
    /\ tcalls[1].arg.index = 2
    /\ tcalls[1].arg.monitor = monitors[3]
    /\ tres.kind = "image"

\* C15: list_monitors returns one record per physical monitor, in OS order
\* and without the combined entry 0; the k-th record has index k, its 1-based
\* position in the raw list, and is_primary exactly when that monitor's
\* origin is (0,0); the list is empty when only the combined entry exists.
C15_MonitorRecords ==
    (tool.name = "list_monitors" /\ tpc = "done") =>
        /\ Len(lres) = Len(monitors) - 1
        /\ \A k \in 1..Len(lres) :
              /\ lres[k].index = k
              /\ lres[k].x = monitors[k + 1].left
              /\ lres[k].y = monitors[k + 1].top
              /\ lres[k].width = monitors[k + 1].width
              /\ lres[k].height = monitors[k + 1].height
              /\ lres[k].is_primary <=> (monitors[k + 1].left = 0 /\ monitors[k + 1].top = 0)
        /\ Len(monitors) = 1 => lres = <<>>

\* two monitors side by side: the one at the origin is primary, the other not
C15_Witness ==
    /\ tool.name = "list_monitors"
    /\ tpc = "done"
    /\ monitors = RawMonitors(2, <<<<0, 0>>, <<2, 0>>>>)
    /\ Len(lres) = 2
    /\ lres[1].index = 1 /\ lres[1].is_primary
    /\ lres[2].index = 2 /\ ~lres[2].is_primary /\ lres[2].x = 2

-----------------------------------------------------------------------------
(* Properties of list_windows *)

\* window w is to be listed under the filter (None or a text)
Listed(w, filter) ==
    /\ w.visible
    /\ NonBlank(w.title)
    /\ (filter = None \/ CasePermutedSubstring(filter[1], w.title))

\* the positions of the windows to be listed
ListedAt(filter) == {i \in DOMAIN windows : Listed(windows[i], filter)}

\* the k-th smallest position of the set S
Nth(S, k) == CHOOSE i \in S : Cardinality({j \in S : j < i}) = k - 1

\* C16: list_windows(filter) returns, in enumeration order and with neither
\* duplicates nor omissions, one entry for each enumerated window that is
\* visible, has a non-blank title and (filter absent or the filter is a
\* substring of the title, both lower-cased).
C16_ListsExactlyTheCandidates ==
    lpc = "done" =>
        /\ Len(lwin) = Cardinality(ListedAt(lfilter))
        /\ \A k \in 1..Len(lwin) :
              LET w == windows[Nth(ListedAt(lfilter), k)]
              IN  /\ lwin[k].hwnd = w.hwnd
                  /\ lwin[k].title = w.title

\* a blank window comes first; the upper-case filter lists the lower-case
\* title after it
C16_Witness ==
    /\ lpc = "done"
    /\ Len(windows) = 2
    /\ lfilter = Some(<<"A">>)
    /\ windows[1].visible /\ windows[1].title = <<" ", " ">>
    /\ windows[2].title = <<"a", " ">>
    /\ Len(lwin) = 1
    /\ lwin[1].hwnd = 2

\* the set of entries of a list
Entries(ws) == {ws[k] : k \in DOMAIN ws}

\* the position of entry e in the list ws
EntryAt(ws, e) == CHOOSE p \in DOMAIN ws : ws[p] = e

\* every candidate is also listed under the filter
FilterKeepsAll == ListedAt(lfilter) = ListedAt(None)

\* C17 (as stated): the entries of list_windows(filter) are a strict subset
\* of the entries of list_windows(None) on the same table.
C17_StrictSubset ==
    lpc = "done" => (Entries(lwin) \subseteq Entries(lall) /\ Entries(lwin) # Entries(lall))

\* C17 (amended): the entries of list_windows(filter) are a subset of the
\* entries of list_windows(None) on the same table, in the same order; the
\* subset is strict exactly when some candidate's title does not contain
\* the filter, and the two lists are equal otherwise.
C17_SubsetInOrder ==
    lpc = "done" =>
        /\ Entries(lwin) \subseteq Entries(lall)
        /\ \A j, k \in DOMAIN lwin : j < k => EntryAt(lall, lwin[j]) < EntryAt(lall, lwin[k])
        /\ Entries(lwin) # Entries(lall) <=> ~FilterKeepsAll
        /\ FilterKeepsAll => lwin = lall

\* the filter keeps one of two candidates
C17_Witness ==
    /\ lpc = "done"
    /\ lfilter = Some(<<"a", " ">>)
    /\ Len(lall) = 2
    /\ Len(lwin) = 1
    /\ lwin[1] = lall[2]

\* C18: list_windows("") returns the same sequence of entries as
\* list_windows(None) on the same table.
C18_EmptyFilterIsNoFilter == (lpc = "done" /\ lfilter = Some(<<>>)) => lwin = lall

\* two candidates listed under the empty filter
C18_Witness ==
    /\ lpc = "done"
    /\ lfilter = Some(<<>>)
    /\ Len(lall) = 2
    /\ Len(lwin) = 2
    /\ lwin[1].title # lwin[2].title

-----------------------------------------------------------------------------
(* Properties of resize_window, move_window, focus_window and               *)
(* _force_foreground                                                         *)

\* the window the operation matched, in the current table
Matched(w) == w.hwnd = ow[1].hwnd

\* C22: resize_window changes only the matched window's width and height
\* (its position and the z-order stay), move_window changes only the matched
\* window's position (its size and the z-order stay), and neither changes
\* any other window.
C22_ResizeMoveFrame ==
    [][(op.name \in {"resize", "move"} /\ windows' # windows) =>
        /\ ow # None
        /\ DOMAIN windows' = DOMAIN windows
        /\ \A i \in DOMAIN windows :
             LET w == windows[i]
             IN  IF ~Matched(w) THEN windows'[i] = w
                 ELSE IF op.name = "resize"
                 THEN windows'[i] = [w EXCEPT !.right = w.left + op.width,
                                              !.bottom = w.top + op.height]
                 ELSE windows'[i] = [w EXCEPT !.left = op.x, !.top = op.y,
                                              !.right = op.x + (w.right - w.left),
                                              !.bottom = op.y + (w.bottom - w.top)]]_vars

\* the second of two windows was resized to 2x1: it kept its handle's place
\* in the z-order and its position, the first window kept its 80x60
C22_Witness ==
    /\ opc = "done"
    /\ op.name = "resize"
    /\ op.width = 2
    /\ op.height = 1
    /\ ofault = <<>>
    /\ Len(windows) = 2
    /\ ow # None
    /\ ow[1].hwnd = 2
    /\ windows[2].hwnd = 2
    /\ windows[2].left = 20
    /\ windows[2].right - windows[2].left = 2
    /\ windows[2].bottom - windows[2].top = 1
    /\ windows[1].right - windows[1].left = 80

\* the number of AttachThreadInput calls in the log that attach or detach
ThreadInputCalls(what) ==
    Cardinality({i \in DOMAIN oslog :
                    oslog[i].api = "AttachThreadInput" /\ oslog[i].arg = <<what>>})

\* _force_foreground got as far as comparing the two thread ids
ThreadsCompared == \E i \in DOMAIN oslog : oslog[i].api = "GetWindowThreadProcessId"

\* C25: _force_foreground attaches thread input iff the current thread is
\* not the foreground window's thread; once attached it detaches exactly
\* once before it exits, as its last call, whether BringWindowToTop,
\* ShowWindow and SetForegroundWindow succeed or raise; when the threads are
\* equal it makes no attach and no detach call.
C25_AttachDetachPaired ==
    op.name = "focus" =>
        /\ attached => ~sameThread
        /\ sameThread => (ThreadInputCalls("attach") = 0 /\ ThreadInputCalls("detach") = 0)
        /\ ThreadInputCalls("detach") <= ThreadInputCalls("attach")
        /\ ThreadInputCalls("attach") <= 1
        /\ (opc \in {"done", "raised"} /\ ThreadsCompared /\ ~sameThread) =>
                /\ ThreadInputCalls("attach") = 1
                /\ ThreadInputCalls("detach") = 1
                /\ oslog[Len(oslog)].arg = <<"detach">>
                /\ ~attached
        /\ (opc \in {"done", "raised"} /\ ~ThreadsCompared) => ThreadInputCalls("attach") = 0

\* BringWindowToTop raised while thread input was attached: the detach call
\* followed it and focus_window returned
C25_Witness ==
    /\ opc = "done"
    /\ op.name = "focus"
    /\ ~sameThread
    /\ ofault # <<>>
    /\ Len(oslog) >= 2
    /\ oslog[Len(oslog) - 1].api = "BringWindowToTop"
    /\ oslog[Len(oslog)].arg = <<"detach">>
    /\ ThreadInputCalls("attach") = 1
    /\ ~attached

\* the positions of the log where the call is api
CallsOf(api) == {i \in DOMAIN oslog : oslog[i].api = api}

\* C26: on a matched window recorded as minimized focus_window issues the
\* restore, then the 0.3 s sleep, then _force_foreground, in this order; on a
\* window not minimized it issues no restore and no sleep; it reports
\* 'is now focused' exactly when none of these steps raised.
C26_FocusOrder ==
    (op.name = "focus" /\ ow # None) =>
        /\ ow[1].minimized =>
                /\ Len(oslog) >= 1 => oslog[1] = Call("ShowWindow", ow[1].hwnd, <<SW_RESTORE>>, FALSE)
                /\ Len(oslog) >= 2 => oslog[2] = Call("sleep", 0, <<3>>, FALSE)
                /\ Len(oslog) >= 3 => oslog[3].api = "GetForegroundWindow"
                /\ CallsOf("sleep") \subseteq {2}
                /\ \A i \in CallsOf("SetForegroundWindow") : i > 2
        /\ ~ow[1].minimized =>
                /\ CallsOf("sleep") = {}
                /\ \A i \in CallsOf("ShowWindow") : oslog[i].arg # <<SW_RESTORE>>
                /\ Len(oslog) >= 1 => oslog[1].api = "GetForegroundWindow"
        /\ opc = "done" =>
                /\ (\E k \in DOMAIN ores : ores[k] = [lit |-> "is now focused"]) <=> ofault = <<>>
                /\ ofault = <<>> => CallsOf("SetForegroundWindow") # {}

\* a minimized window was restored, the sleep was made, and every call of
\* _force_foreground completed
C26_Witness ==
    /\ opc = "done"
    /\ op.name = "focus"
    /\ ow # None
    /\ ow[1].minimized
    /\ ofault = <<>>
    /\ oslog[2].api = "sleep"
    /\ oslog[Len(oslog)].api = "SetForegroundWindow"
    /\ sameThread
    /\ ores[4] = [lit |-> "is now focused"]

-----------------------------------------------------------------------------
(* Properties of list_windows against the foreground window and find_window *)

\* the positions of the entries of list_windows marked active
ActiveEntries == {i \in DOMAIN lwin : lwin[i].active}

\* C27: every result of list_windows has at most one entry with active =
\* true, even if the foreground window changes during the enumeration.
C27_AtMostOneActive == lpc = "done" => Cardinality(ActiveEntries) <= 1

\* the first entry of list_windows(t) is find_window(t)'s record plus `active`
FirstListedIsFound == lwin # <<>> /\ lwin[1] = found[1] @@ [active |-> lwin[1].active]

\* C28 (as stated): on the same table, for a non-empty t, find_window(t) is
\* absent iff list_windows(t) is empty, and otherwise it is the first entry
\* of list_windows(t) without its active field.
C28_AbsentIffListEmpty ==
    (lpc = "done" /\ fpc = "done") =>
        /\ found = None <=> lwin = <<>>
        /\ found # None => FirstListedIsFound

\* C28 (amended): on the same table, for a non-empty t, find_window(t) is
\* absent iff list_windows(t) is empty or find_window's enumeration failed
\* before a match was recorded, and otherwise it is the first entry of
\* list_windows(t) without its active field.
C28_FindIsFirstListed ==
    (lpc = "done" /\ fpc = "done") =>
        /\ found = None <=> (lwin = <<>> \/ (swallowed /\ ctx = <<>>))
        /\ found # None => FirstListedIsFound

\* two windows are listed for "a" and find_window("a") returned the first
C28_Witness ==
    /\ lpc = "done"
    /\ fpc = "done"
    /\ lfilter = Some(<<"a">>)
    /\ Len(lwin) = 2
    /\ found # None
    /\ found[1].hwnd = 1
    /\ lwin[1].hwnd = 1
    /\ lwin[1].title = <<"A", " ">>
    /\ ~swallowed

-----------------------------------------------------------------------------
(* Properties of the waiter loop *)

\* C23: the waiter returns absent only immediately after a find_window call
\* that found no match; once it has slept it never returns absent without
\* polling again, so a window that appeared during the last sleep is found.
C23_AbsentOnlyAfterFailedPoll ==
    [][(wpc # "done" /\ wpc' = "done" /\ nfound' = 0 /\ sleeps > 0) => wpc = "poll"]_vars

\* C24: in each iteration of the waiter loop the clock is read once: the
\* elapsed time that chooses the sleep interval is the elapsed time the
\* timeout decision of the same iteration saw.
C24_OneReadingPerIteration == wpc = "sleep" => welapsed = wchecked

\* no wait is cut short by the bound on the sleeps followed
SleepsWithinBound == wpc = "sleep" => sleeps < MaxSleeps

\* C29: every call of the waiter returns (a window or absent), each sleep
\* advancing the clock by its interval, whatever windows appear and vanish;
\* no sleep is ever held back.
C29_WaiterTerminates == []SleepsWithinBound /\ <>(wpc = "done")

\* the waiter returned after a matching window had come and gone and after
\* it slept in both phases of the schedule
C29_Witness ==
    /\ wpc = "done"
    /\ presence = "sometimes"
    /\ sleeps > 25
    /\ lastsleep[2] = 5
    /\ wtimeout = MaxTimeout

-----------------------------------------------------------------------------
(* Properties of run_python_script *)

\* C21: when run_python_script waited for a title and the waiter found a
\* window, it sleeps capture_after and queries again, and the window in the
\* result is the record that query read after the sleep, never the record
\* read before the sleep.
C21_AttachesRequeried ==
    (spc \in {"communicate", "done"} /\ sfirst # None) =>
        /\ sagain # None
        /\ sres.window = window_rect(sagain[1])

\* both waiters of the pair have returned
BothReturned == pair["wm"].pc = "done" /\ pair["pm"].pc = "done"

\* C30: on the same clock readings and find_window results wait_for_window
\* and _wait_for_window make the same polls and sleeps in the same order,
\* and wait_for_window reports 'Window found' with w's title exactly when
\* _wait_for_window returns w, the timeout message exactly when it returns
\* absent.
C30_SamePollsAndSleeps ==
    BothReturned =>
        /\ pair["wm"].trace = pair["pm"].trace
        /\ pair["wm"].ri = pair["pm"].ri
        /\ pair["pm"].result # None =>
                pair["wm"].result = <<[lit |-> "Window found: '"],
                                      [field |-> "title", value |-> pair["pm"].result[1].title],
                                      [lit |-> "'"]>>
        /\ pair["pm"].result = None =>
                /\ pair["wm"].result[1] = [lit |-> "Timed out waiting for window matching '"]
                /\ pair["wm"].result[4].value = feed.timeout

\* both waiters polled, slept 0.5 s, polled again and got the second window
C30_Witness ==
    /\ BothReturned
    /\ Len(pair["pm"].trace) = 3
    /\ pair["pm"].trace[2] = [call |-> "sleep", arg |-> 5]
    /\ pair["pm"].result # None
    /\ pair["pm"].result[1].hwnd = 2
    /\ pair["wm"].result[2].value = <<"a", " ">>

====
